---------------------------- MODULE Spec2Model ----------------------------
(***************************************************************************)
(* Scoreboard webhook: the submission-ingestion-and-relay pipeline of      *)
(* tools/scoreboard/webhook.py and tools/scoreboard/database.py.           *)
(*                                                                         *)
(* Strings are sequences of one-character strings, so that strip, upper,   *)
(* truncation and int() are computed and not assumed.  A JSON value is a   *)
(* record [t, s, n]: its Python type, its characters, its number.          *)
(***************************************************************************)
EXTENDS Integers, Sequences, FiniteSets, TLC

(***************************************************************************)
(* Bounds of the model.                                                    *)
(***************************************************************************)
\* RATE_LIMITER = RateLimiter(max_requests=60, window_seconds=60): the model
\* runs the server's limiter with small parameters
ServerMaxRequests == 1
ServerWindowSeconds == 1
\* time.time() is read as an integer clock that the model stops here
MaxTime == 1
\* how many uuid4() identifiers the model hands out
MaxFresh == 2
\* the last clock reading when the limiter is exercised on its own
LimiterHorizon == 2
\* the limiter under test on its own: RateLimiter(MaxRequests, WindowSeconds)
MaxRequests == 3
WindowSeconds == 2
\* SQLite's INTEGER is a signed 64-bit value; the model scales 2^63-1 down
SqliteIntMax == 100
\* the clock of the swept limiter runs from 0 to SweepHorizon
SweepHorizon == 4

(***************************************************************************)
(* Python strings                                                          *)
(***************************************************************************)
IsSpace(c) == c \in {" ", "\t", "\n"}

RECURSIVE LStrip(_)
LStrip(s) == IF s # <<>> /\ IsSpace(Head(s)) THEN LStrip(Tail(s)) ELSE s

RECURSIVE RStrip(_)
RStrip(s) ==
    IF s # <<>> /\ IsSpace(s[Len(s)]) THEN RStrip(SubSeq(s, 1, Len(s) - 1)) ELSE s

\* str.strip()
Strip(s) == RStrip(LStrip(s))

UpperChar(c) ==
    CASE c = "a" -> "A"
      [] c = "b" -> "B"
      [] c = "c" -> "C"
      [] c = "d" -> "D"
      [] c = "e" -> "E"
      [] c = "s" -> "S"
      [] c = "t" -> "T"
      [] c = "r" -> "R"
      [] c = "u" -> "U"
      [] c = "y" -> "Y"
      [] c = "x" -> "X"
      [] OTHER -> c

LowerChar(c) ==
    CASE c = "A" -> "a"
      [] c = "B" -> "b"
      [] c = "C" -> "c"
      [] c = "D" -> "d"
      [] c = "E" -> "e"
      [] c = "S" -> "s"
      [] c = "T" -> "t"
      [] c = "R" -> "r"
      [] c = "U" -> "u"
      [] c = "Y" -> "y"
      [] c = "X" -> "x"
      [] OTHER -> c

\* the characters outside ASCII the model writes: e acute and sharp s
EAcute == "\\u00e9"
SharpS == "\\u00df"

RECURSIVE Upper(_)
\* str.upper(): sharp s has no capital and becomes SS
Upper(s) ==
    IF s = <<>> THEN <<>>
    ELSE (IF Head(s) = SharpS THEN <<"S", "S">> ELSE <<UpperChar(Head(s))>>)
            \o Upper(Tail(s))

\* str.lower()
Lower(s) == [i \in 1..Len(s) |-> LowerChar(s[i])]

\* s[:n]
Truncate(s, n) == SubSeq(s, 1, IF Len(s) < n THEN Len(s) ELSE n)

IsAscii(s) == \A i \in 1..Len(s) : s[i] \notin {EAcute, SharpS}

DigitChars == <<"0", "1", "2", "3", "4", "5", "6", "7", "8", "9">>
IsDigit(c) == \E d \in 1..10 : DigitChars[d] = c
DigitValue(c) == (CHOOSE d \in 1..10 : DigitChars[d] = c) - 1

RECURSIVE DigitsValue(_)
DigitsValue(s) ==
    IF s = <<>> THEN 0
    ELSE DigitsValue(SubSeq(s, 1, Len(s) - 1)) * 10 + DigitValue(s[Len(s)])

RECURSIVE NatStr(_)
NatStr(n) ==
    IF n < 10 THEN <<DigitChars[n + 1]>>
    ELSE NatStr(n \div 10) \o <<DigitChars[(n % 10) + 1]>>

\* str(int)
IntStr(n) == IF n < 0 THEN <<"-">> \o NatStr(0 - n) ELSE NatStr(n)

\* digits with single underscores between them, as int() accepts
IsDigitGroup(body) ==
    /\ body # <<>>
    /\ IsDigit(body[1]) /\ IsDigit(body[Len(body)])
    /\ \A i \in 1..Len(body) : IsDigit(body[i]) \/ body[i] = "_"
    /\ \A i \in 1..(Len(body) - 1) : ~(body[i] = "_" /\ body[i + 1] = "_")

\* int(str): surrounding whitespace, an optional sign, then digits.
\* [ok |-> FALSE] stands for ValueError.
ParseInt(s) ==
    LET t == Strip(s)
        signed == t # <<>> /\ Head(t) \in {"-", "+"}
        body == IF signed THEN Tail(t) ELSE t
        digits == SelectSeq(body, IsDigit)
    IN  IF IsDigitGroup(body)
        THEN [ok |-> TRUE,
              n |-> IF signed /\ Head(t) = "-"
                    THEN 0 - DigitsValue(digits) ELSE DigitsValue(digits)]
        ELSE [ok |-> FALSE, n |-> 0]

(***************************************************************************)
(* JSON values as json.loads returns them                                  *)
(***************************************************************************)
JNull == [t |-> "null", s |-> <<>>, n |-> 0]
JStr(s) == [t |-> "str", s |-> s, n |-> 0]
JInt(n) == [t |-> "int", s |-> <<>>, n |-> n]
JBool(b) == [t |-> "bool", s |-> <<>>, n |-> IF b THEN 1 ELSE 0]
\* a float keeps its repr and whether it is non-zero
JFloat(repr, nonzero) == [t |-> "float", s |-> repr, n |-> IF nonzero THEN 1 ELSE 0]
\* a list: only its length matters here (n), [] is falsy
JList(len) == [t |-> "list", s |-> <<>>, n |-> len]
\* an object: only its size matters here (n), {} is falsy
JDict(len) == [t |-> "dict", s |-> <<>>, n |-> len]
\* dict.get(key) of a key that is not there; the default decides the value
Absent == [t |-> "absent", s |-> <<>>, n |-> 0]

\* Python truthiness
Truthy(v) ==
    CASE v.t = "null" -> FALSE
      [] v.t = "absent" -> FALSE
      [] v.t = "str" -> v.s # <<>>
      [] v.t \in {"int", "bool", "float", "list", "dict"} -> v.n # 0
      [] OTHER -> TRUE

\* str(value)
PyStr(v) ==
    CASE v.t = "str" -> v.s
      [] v.t = "int" -> IntStr(v.n)
      [] v.t = "float" -> v.s
      [] v.t = "bool" -> IF v.n = 1 THEN <<"T", "r", "u", "e">>
                                   ELSE <<"F", "a", "l", "s", "e">>
      [] v.t = "list" -> IF v.n = 0 THEN <<"[", "]">> ELSE <<"[", "1", "]">>
      [] v.t = "dict" -> IF v.n = 0 THEN <<"{", "}">>
                                   ELSE <<"{", "'", "k", "'", ":", " ", "1", "}">>
      [] OTHER -> <<"N", "o", "n", "e">>

(***************************************************************************)
(* Configuration: load_config, read once at import                        *)
(***************************************************************************)
\* Optional[str]
None == [set |-> FALSE, v |-> <<>>]
Some(s) == [set |-> TRUE, v |-> s]

RECURSIVE StripChars(_, _)
\* str.strip(chars)
StripChars(s, chars) ==
    IF s # <<>> /\ Head(s) \in chars THEN StripChars(Tail(s), chars)
    ELSE IF s # <<>> /\ s[Len(s)] \in chars
         THEN StripChars(SubSeq(s, 1, Len(s) - 1), chars)
         ELSE s

\* _normalize: trim whitespace and quotes; an empty result is None
NormalizeEnv(value) ==
    IF ~value.set THEN None
    ELSE LET trimmed == Strip(StripChars(StripChars(Strip(value.v), {"\""}), {"'"}))
         IN  IF trimmed = <<>> THEN None ELSE Some(trimmed)

\* load_config: the relay is on only with both repo and token
LoadConfig(env) ==
    LET repo == NormalizeEnv(env.repo)
        token == NormalizeEnv(env.token)
        off == ~repo.set \/ ~token.set
    IN  [repo |-> IF off THEN None ELSE repo,
         token |-> IF off THEN None ELSE token,
         secret |-> NormalizeEnv(env.secret)]

SecretValue == <<"s", "k">>
EnvSecrets == {None, Some(SecretValue)}
EnvRepos == {None, Some(<<"o", "/", "r">>)}
EnvTokens == {None, Some(<<"t">>), Some(<<" ">>)}
Environments == [secret : EnvSecrets, repo : EnvRepos, token : EnvTokens]
Configs == {LoadConfig(env) : env \in Environments}

(***************************************************************************)
(* RateLimiter                                                             *)
(***************************************************************************)
Clients == {"c1"}

\* self.requests[ip] of the defaultdict(list): a missing key reads as []
Timestamps(reqs, ip) == IF ip \in DOMAIN reqs THEN reqs[ip] ELSE <<>>

\* reqs with reqs[ip] = seq
SetTimestamps(reqs, ip, seq) ==
    [k \in DOMAIN reqs \cup {ip} |-> IF k = ip THEN seq ELSE reqs[k]]

\* the list comprehension: timestamps newer than the cutoff, in order
NewerThan(seq, cutoff) ==
    LET Keep(ts) == ts > cutoff IN SelectSeq(seq, Keep)

\* RateLimiter.__init__
RateLimiter(max_requests, window_seconds) ==
    [max_requests |-> max_requests, window_seconds |-> window_seconds]

RATE_LIMITER == RateLimiter(ServerMaxRequests, ServerWindowSeconds)

\* is_allowed with `>` for `>=` in the limit test
IsAllowedOffByOne(self, reqs, ip, t) ==
    LET cutoff == t - self.window_seconds
        kept == NewerThan(Timestamps(reqs, ip), cutoff)
        cleaned == SetTimestamps(reqs, ip, kept)
    IN  IF Len(kept) > self.max_requests
        THEN [allowed |-> FALSE, requests |-> cleaned]
        ELSE [allowed |-> TRUE,
              requests |-> SetTimestamps(cleaned, ip, Append(kept, t))]

\* is_allowed: [allowed, requests]
IsAllowed(self, reqs, ip, t) ==
    LET cutoff == t - self.window_seconds
        kept == NewerThan(Timestamps(reqs, ip), cutoff)
        cleaned == SetTimestamps(reqs, ip, kept)
    IN  IF Len(kept) >= self.max_requests
        THEN [allowed |-> FALSE, requests |-> cleaned]
        ELSE [allowed |-> TRUE,
              requests |-> SetTimestamps(cleaned, ip, Append(kept, t))]

\* cleanup_old_entries without the del of line 126
CleanupOldEntriesKeepingKeys(self, reqs, t) ==
    LET cutoff == t - self.window_seconds * 2
    IN  [ip \in DOMAIN reqs |-> NewerThan(reqs[ip], cutoff)]

\* cleanup_old_entries with the cutoff taken ahead of the clock
CleanupOldEntriesAhead(self, reqs, t) ==
    LET cutoff == t + self.window_seconds * 2
        kept == [ip \in DOMAIN reqs |-> NewerThan(reqs[ip], cutoff)]
    IN  [ip \in {k \in DOMAIN reqs : kept[k] # <<>>} |-> kept[ip]]

\* cleanup_old_entries run to its end by one thread: every key's list is
\* filtered, and a key whose list came out empty is deleted
CleanupOldEntries(self, reqs, t) ==
    LET cutoff == t - self.window_seconds * 2
        kept == [ip \in DOMAIN reqs |-> NewerThan(reqs[ip], cutoff)]
    IN  [ip \in {k \in DOMAIN reqs : kept[k] # <<>>} |-> kept[ip]]

(***************************************************************************)
(* normalize_entry                                                         *)
(***************************************************************************)
PayloadKeys ==
    {"id", "initials", "level", "score", "runTimeTicks", "run_time_ticks",
     "victory", "timestampUtc"}

EmptyPayload == [k \in PayloadKeys |-> Absent]

\* dict.get(key, default)
Get(data, key, default) == IF data[key].t = "absent" THEN default ELSE data[key]

\* dict.get(key) or default
GetOr(data, key, default) == IF Truthy(data[key]) THEN data[key] ELSE default

\* _to_bool without the strip()
ToBoolUntrimmed(value) ==
    CASE value.t = "bool" -> value.n = 1
      [] value.t \in {"int", "float"} -> value.n # 0
      [] value.t = "str" ->
            Lower(value.s) \in
                {<<"1">>, <<"t", "r", "u", "e">>, <<"y", "e", "s">>, <<"y">>}
      [] OTHER -> FALSE

\* _to_bool
ToBool(value) ==
    CASE value.t = "bool" -> value.n = 1
      [] value.t \in {"int", "float"} -> value.n # 0
      [] value.t = "str" ->
            Lower(Strip(value.s)) \in
                {<<"1">>, <<"t", "r", "u", "e">>, <<"y", "e", "s">>, <<"y">>}
      [] OTHER -> FALSE

\* int(str(value)): the integer, or the exception int() raises
IntConversion(value) ==
    LET p == ParseInt(PyStr(value))
    IN  [raised |-> IF p.ok THEN "" ELSE "ValueError", n |-> p.n]

\* except (TypeError, ValueError) with ValueError left out
CaughtTypeErrorOnly(exc) == exc \in {"TypeError"}

\* except (TypeError, ValueError)
Caught(exc) == exc \in {"TypeError", "ValueError"}

\* the try statement around int(str(value)): 0 when the exception is caught
TryInt(value) ==
    LET c == IntConversion(value)
    IN  IF c.raised # "" /\ Caught(c.raised) THEN [raised |-> "", n |-> 0] ELSE c

IntOrZero(value) == TryInt(value).n

Unknown == <<"?", "?", "?">>

\* lines 165-167 with the [:3] taken before upper()
NormalizeInitialsCutFirst(data) ==
    LET raw == PyStr(GetOr(data, "initials", JStr(Unknown)))
        cut == Truncate(Strip(raw), 3)
    IN  IF cut = <<>> THEN Unknown ELSE Upper(cut)

NormalizeInitials(data) ==
    LET raw == PyStr(GetOr(data, "initials", JStr(Unknown)))
        up == Upper(Strip(raw))
    IN  Truncate(IF up = <<>> THEN Unknown ELSE up, 3)

\* datetime.isoformat() of the clock reading t
IsoFormat(t) == <<"T">> \o NatStr(t)

\* normalize_entry(data); uuid is uuid4().hex, t is the clock
NormalizeEntry(data, uuid, t) ==
    [id |-> PyStr(GetOr(data, "id", JStr(uuid))),
     initials |-> NormalizeInitials(data),
     level |-> IntOrZero(Get(data, "level", Get(data, "score", JInt(0)))),
     runTimeTicks |->
         IntOrZero(Get(data, "runTimeTicks", Get(data, "run_time_ticks", JInt(0)))),
     victory |-> ToBool(Get(data, "victory", JBool(FALSE))),
     timestampUtc |-> PyStr(GetOr(data, "timestampUtc", JStr(IsoFormat(t))))]

\* the exception that leaves normalize_entry ("": it returns)
NormalizeRaised(data) ==
    LET level == TryInt(Get(data, "level", Get(data, "score", JInt(0))))
        ticks == TryInt(Get(data, "runTimeTicks", Get(data, "run_time_ticks", JInt(0))))
    IN  IF level.raised # "" THEN level.raised ELSE ticks.raised

NoEntry ==
    [id |-> <<>>, initials |-> <<>>, level |-> 0, runTimeTicks |-> 0,
     victory |-> FALSE, timestampUtc |-> <<>>]

(***************************************************************************)
(* ScoreRepository: the scoreboard table                                   *)
(***************************************************************************)
\* the parameters upsert_entry binds
RowOf(entry) ==
    [id |-> entry.id, initials |-> entry.initials, level |-> entry.level,
     max_altitude |-> 0, run_time_ticks |-> entry.runTimeTicks,
     victory |-> IF entry.victory THEN 1 ELSE 0,
     timestamp_utc |-> entry.timestampUtc]

FitsSqliteInteger(n) == 0 - SqliteIntMax - 1 <= n /\ n <= SqliteIntMax

\* the statement with timestamp_utc left out of DO UPDATE SET
InsertOrUpdateStaleTimestamp(tbl, new) ==
    IF \E r \in tbl : r.id = new.id
    THEN {IF r.id = new.id
          THEN [r EXCEPT !.initials = new.initials,
                         !.level = new.level,
                         !.max_altitude = new.max_altitude,
                         !.run_time_ticks = new.run_time_ticks,
                         !.victory = new.victory]
          ELSE r : r \in tbl}
    ELSE tbl \cup {new}

\* DELETE FROM scoreboard before the INSERT
DeleteThenInsert(tbl, new) == {new}

\* INSERT ... ON CONFLICT(id) DO UPDATE SET ...: the table after the statement
InsertOrUpdate(tbl, new) ==
    IF \E r \in tbl : r.id = new.id
    THEN {IF r.id = new.id
          THEN [r EXCEPT !.initials = new.initials,
                         !.level = new.level,
                         !.max_altitude = new.max_altitude,
                         !.run_time_ticks = new.run_time_ticks,
                         !.victory = new.victory,
                         !.timestamp_utc = new.timestamp_utc]
          ELSE r : r \in tbl}
    ELSE tbl \cup {new}

\* upsert_entry: io is what the database file does to the statement.
\* raised: "" | "sqlite3.Error" | "OverflowError"; a raise rolls back.
UpsertEntry(tbl, entry, io) ==
    LET new == RowOf(entry) IN
    IF ~FitsSqliteInteger(new.level) \/ ~FitsSqliteInteger(new.run_time_ticks)
    THEN [raised |-> "OverflowError", table |-> tbl]
    ELSE IF io # "ok"
         THEN [raised |-> "sqlite3.Error", table |-> tbl]
         ELSE [raised |-> "", table |-> InsertOrUpdate(tbl, new)]

\* _row_to_entry: the entry a row of the table reads back as
EntryOf(row) ==
    [id |-> row.id, initials |-> row.initials, level |-> row.level,
     runTimeTicks |-> row.run_time_ticks, victory |-> row.victory # 0,
     timestampUtc |-> row.timestamp_utc]

(***************************************************************************)
(* ScoreRepository: leaderboard and get_global_stats                       *)
(***************************************************************************)
\* the characters of the timestamps, by increasing code point
CodePoints ==
    <<" ", "0", "1", "2", "3", "4", "5", "6", "7", "8", "9", "T", "e", "k", "t", "w", "x">>
Ord(c) == CHOOSE i \in 1..Len(CodePoints) : CodePoints[i] = c

\* a < b for TEXT values (the column has the BINARY collation)
RECURSIVE TextLess(_, _)
TextLess(a, b) ==
    IF b = <<>> THEN FALSE
    ELSE IF a = <<>> THEN TRUE
    ELSE IF a[1] # b[1] THEN Ord(a[1]) < Ord(b[1])
    ELSE TextLess(Tail(a), Tail(b))

\* datetime.fromisoformat(ts) returns (TRUE) or raises ValueError (FALSE).
\* Timestamps are written as IsoFormat writes them, the date left out: the
\* separator, then the time. fromisoformat takes any single character for
\* the separator.
FromIsoFormat(ts) ==
    /\ Len(ts) >= 2
    /\ ~IsDigit(ts[1])
    /\ \A i \in 2..Len(ts) : IsDigit(ts[i])

\* _validate_timestamp(ts)
ValidateTimestamp(ts) ==
    IF ~ts.set \/ ts.v = <<>> THEN None
    ELSE IF FromIsoFormat(ts.v) THEN ts
    ELSE None

\* WHERE timestamp_utc >= ?, or no WHERE clause
Matching(tbl, since_validated) ==
    IF since_validated.set
    THEN {r \in tbl : ~TextLess(r.timestamp_utc, since_validated.v)}
    ELSE tbl

Min(a, b) == IF a < b THEN a ELSE b
Max(a, b) == IF a > b THEN a ELSE b

\* limit = max(1, min(limit, 100)) with the lower bound left out
ClampLimitUpperOnly(limit) == Min(limit, 100)

\* limit = max(1, min(limit, 100))
ClampLimit(limit) == Max(1, Min(limit, 100))

\* ORDER BY level DESC, run_time_ticks ASC with the second term descending
TopOrderSlowerFirst(r) == <<0 - r.level, 0 - r.run_time_ticks>>

\* ORDER BY level DESC, run_time_ticks ASC: the terms, each ascending
TopOrder(r) == <<0 - r.level, r.run_time_ticks>>

\* ORDER BY run_time_ticks ASC, level DESC with the terms swapped
FastOrderByLevel(r) == <<0 - r.level, r.run_time_ticks>>

\* ORDER BY run_time_ticks ASC, level DESC: the terms, each ascending
FastOrder(r) == <<r.run_time_ticks, 0 - r.level>>

\* x sorts strictly before y
TermsLess(x, y) == x[1] < y[1] \/ (x[1] = y[1] /\ x[2] < y[2])

\* the orders ORDER BY may return the rows in: rows with equal terms come
\* in any order
RECURSIVE OrderBy(_)
OrderBy(keyed) ==
    IF keyed = {} THEN {<<>>}
    ELSE UNION {{<<x.row>> \o q : q \in OrderBy(keyed \ {x})} :
                   x \in {y \in keyed : \A z \in keyed : ~TermsLess(z.terms, y.terms)}}

\* LIMIT ?: a negative limit is no limit
LimitRows(q, limit) ==
    IF limit < 0 THEN q ELSE SubSeq(q, 1, Min(limit, Len(q)))

Entries(q) == [i \in DOMAIN q |-> EntryOf(q[i])]
SeqEntries(entries) == {entries[i] : i \in DOMAIN entries}

\* the top levels query, rows converted by _row_to_entry
TopLevels(tbl, since_validated, limit) ==
    {Entries(LimitRows(q, limit)) :
        q \in OrderBy({[terms |-> TopOrder(r), row |-> r] :
                          r \in Matching(tbl, since_validated)})}

\* the fastest runs query with the level > 0 condition left out
FastestRunsAnyLevel(tbl, since_validated, limit) ==
    {Entries(LimitRows(q, limit)) :
        q \in OrderBy({[terms |-> FastOrder(r), row |-> r] :
                          r \in {x \in Matching(tbl, since_validated) :
                                    x.run_time_ticks > 0}})}

\* the fastest runs query, rows converted by _row_to_entry
FastestRuns(tbl, since_validated, limit) ==
    {Entries(LimitRows(q, limit)) :
        q \in OrderBy({[terms |-> FastOrder(r), row |-> r] :
                          r \in {x \in Matching(tbl, since_validated) :
                                    x.run_time_ticks > 0 /\ x.level > 0}})}

\* SELECT COUNT(*)
CountRows(tbl, since_validated) == Cardinality(Matching(tbl, since_validated))

RECURSIVE SumLevels(_)
SumLevels(rows) ==
    IF rows = {} THEN 0
    ELSE LET r == CHOOSE x \in rows : TRUE IN r.level + SumLevels(rows \ {r})

\* CAST(a / b AS INTEGER) truncates towards zero
TruncDiv(a, b) == IF a >= 0 THEN a \div b ELSE 0 - ((0 - a) \div b)

MaxOf(ns) == CHOOSE n \in ns : \A m \in ns : m <= n
MinOf(ns) == CHOOSE n \in ns : \A m \in ns : n <= m

\* lines 260-268: the result when there is no run
EmptyStats ==
    [totalPlayers |-> 0, totalRuns |-> 0, averageLevel |-> 0, highestLevel |-> 0,
     fastestTimeTicks |-> 0, topPlayer |-> <<"N", "/", "A">>,
     fastestPlayer |-> <<"N", "/", "A">>]

\* MIN(CASE WHEN run_time_ticks > 0 ...) with the CASE left out
FastestTimeTicksAnySign(rows) ==
    IF rows = {} THEN 0 ELSE MinOf({r.run_time_ticks : r \in rows})

\* fastest_time_ticks or 0: MIN over the positive run times, NULL when none
FastestTimeTicks(rows) ==
    LET timed == {n \in {r.run_time_ticks : r \in rows} : n > 0}
    IN  IF timed = {} THEN 0 ELSE MinOf(timed)

\* lines 236-257: the row of aggregates; NULL, which the return turns
\* into 0, is written 0
StatsRow(rows) ==
    [total_players |-> Cardinality({r.initials : r \in rows}),
     total_runs |-> Cardinality(rows),
     average_level |-> IF rows = {} THEN 0
                       ELSE TruncDiv(SumLevels(rows), Cardinality(rows)),
     highest_level |-> IF rows = {} THEN 0 ELSE MaxOf({r.level : r \in rows}),
     fastest_time_ticks |-> FastestTimeTicks(rows)]

NotAvailable == <<"N", "/", "A">>

\* lines 270-288: the initials the top player query may return
TopPlayers(rows) ==
    IF rows = {} THEN {NotAvailable}
    ELSE {r.initials : r \in {x \in rows : x.level = MaxOf({y.level : y \in rows})}}

\* lines 290-308: the initials the fastest player query may return
FastestPlayers(rows) ==
    LET timed == {r \in rows : r.run_time_ticks > 0}
    IN  IF timed = {} THEN {NotAvailable}
        ELSE {r.initials : r \in {x \in timed :
                 x.run_time_ticks = MinOf({y.run_time_ticks : y \in timed})}}

\* lines 259-268 and 311-321: the dictionary returned
StatsOf(stats_row, top_player, fastest_player) ==
    IF stats_row.total_runs = 0 THEN EmptyStats
    ELSE [totalPlayers |-> stats_row.total_players,
          totalRuns |-> stats_row.total_runs,
          averageLevel |-> stats_row.average_level,
          highestLevel |-> stats_row.highest_level,
          fastestTimeTicks |-> stats_row.fastest_time_ticks,
          topPlayer |-> top_player, fastestPlayer |-> fastest_player]

\* get_global_stats(since): the results it may return
GetGlobalStats(tbl, since) ==
    LET rows == Matching(tbl, ValidateTimestamp(since))
    IN  {StatsOf(StatsRow(rows), tp, fp) :
            tp \in TopPlayers(rows), fp \in FastestPlayers(rows)}

\* leaderboard(limit, since): the results it may return
Leaderboard(tbl, limit, since) ==
    LET lim == ClampLimit(limit)
        since_validated == ValidateTimestamp(since)
    IN  {[count |-> CountRows(tbl, since_validated), topLevels |-> top,
          fastestRuns |-> fast, stats |-> stats] :
            top \in TopLevels(tbl, since_validated, lim),
            fast \in FastestRuns(tbl, since_validated, lim),
            stats \in GetGlobalStats(tbl, since_validated)}

IoOutcomes == {"ok", "fail"}

(***************************************************************************)
(* dispatch: the relay to the repository-dispatch endpoint                 *)
(***************************************************************************)
DispatchAttempts == 5
BackoffStart == 1
BackoffCap == 10

\* what one urlopen() call can do: an HTTP status (HTTPError unless 2xx), a
\* URLError (no connection), or the TimeoutError of a response that does not
\* arrive within the timeout, which urllib does not wrap
RelayReplies ==
    {[kind |-> "http", code |-> 200], [kind |-> "http", code |-> 404],
     [kind |-> "http", code |-> 429], [kind |-> "http", code |-> 500],
     [kind |-> "URLError", code |-> 0], [kind |-> "TimeoutError", code |-> 0]}


FailedAfterAttempts == <<"GitHub dispatch failed after multiple attempts">>
FailedPermanently == <<"GitHub dispatch failed: 4xx">>

\* One run of dispatch: how it ended ("ok" returned, "RuntimeError" raised,
\* any other exception escaped), the replies its urlopen calls got, the
\* time.sleep arguments in order, and str(exc).
Run(result, replies, waits, message) ==
    [result |-> result, replies |-> replies, waits |-> waits, message |-> message]

\* line 550 with backoff + 1 for backoff * 2
NextBackoffLinear(backoff) == Min(backoff + 1, BackoffCap)

\* line 550
NextBackoff(backoff) == Min(backoff * 2, BackoffCap)

RECURSIVE DispatchLoopNoLastSleep(_, _, _, _)
\* the for loop with no time.sleep once the last attempt has failed
DispatchLoopNoLastSleep(attempt, backoff, replies, waits) ==
    IF attempt >= DispatchAttempts
    THEN {Run("RuntimeError", replies, waits, FailedAfterAttempts)}
    ELSE UNION {
        CASE reply.kind = "http" /\ reply.code \in 200..299 ->
                {Run("ok", Append(replies, reply), waits, <<>>)}
          [] reply.kind = "http" /\ 400 <= reply.code /\ reply.code < 500
                /\ reply.code # 429 ->
                {Run("RuntimeError", Append(replies, reply), waits, FailedPermanently)}
          [] reply.kind \notin {"http", "URLError"} ->
                {Run(reply.kind, Append(replies, reply), waits, <<>>)}
          [] OTHER ->
                DispatchLoopNoLastSleep(attempt + 1, NextBackoff(backoff),
                             Append(replies, reply),
                             IF attempt + 1 < DispatchAttempts
                             THEN Append(waits, backoff) ELSE waits)
        : reply \in RelayReplies}

RECURSIVE DispatchLoop(_, _, _, _)
\* the for loop from its iteration `attempt` on: every run it can take
DispatchLoop(attempt, backoff, replies, waits) ==
    IF attempt >= DispatchAttempts
    THEN {Run("RuntimeError", replies, waits, FailedAfterAttempts)}
    ELSE UNION {
        CASE reply.kind = "http" /\ reply.code \in 200..299 ->
                {Run("ok", Append(replies, reply), waits, <<>>)}
          [] reply.kind = "http" /\ 400 <= reply.code /\ reply.code < 500
                /\ reply.code # 429 ->
                {Run("RuntimeError", Append(replies, reply), waits, FailedPermanently)}
          [] reply.kind \notin {"http", "URLError"} ->
                {Run(reply.kind, Append(replies, reply), waits, <<>>)}
          [] OTHER ->
                DispatchLoop(attempt + 1, NextBackoff(backoff),
                             Append(replies, reply), Append(waits, backoff))
        : reply \in RelayReplies}

\* the runs of the whole loop
RetryLoop == DispatchLoop(0, BackoffStart, <<>>, <<>>)

\* dispatch without lines 514-515
DispatchAlways(config) == RetryLoop

\* dispatch(encoded_line): a no-op without repo or token
Dispatch(config) ==
    IF ~config.repo.set \/ ~config.token.set
    THEN {Run("ok", <<>>, <<>>, <<>>)}
    ELSE RetryLoop

(***************************************************************************)
(* Requests                                                                *)
(***************************************************************************)
MAX_PAYLOAD_BYTES == 4096

\* the line a client sends: what json.loads makes of it
NotJsonText == [kind |-> "notjson", payload |-> EmptyPayload]
JsonNullText == [kind |-> "null", payload |-> EmptyPayload]
JsonListText == [kind |-> "list", payload |-> EmptyPayload]
JsonScalarText == [kind |-> "scalar", payload |-> EmptyPayload]
DictText(payload) == [kind |-> "dict", payload |-> payload]

\* bytes: valid UTF-8 of a text, or not UTF-8 at all
Utf8Encode(text) == [utf8 |-> TRUE, text |-> text]
BadUtf8Bytes == [utf8 |-> FALSE, text |-> NotJsonText]

\* an ASCII base64 string of some bytes, and the strings b64decode refuses
B64Encode(bytes) == [kind |-> "ok", bytes |-> bytes]
EmptyString == [kind |-> "empty", bytes |-> Utf8Encode(NotJsonText)]
NonAsciiString == [kind |-> "nonascii", bytes |-> BadUtf8Bytes]
BadPaddingString == [kind |-> "invalid", bytes |-> BadUtf8Bytes]
\* the base64 of some bytes with a line break in it: not what b64encode
\* gives, and b64decode (validate=False) skips the line break
B64Spaced(bytes) == [kind |-> "spaced", bytes |-> bytes]

\* base64.b64decode: the bytes, or ValueError
B64Decode(enc) ==
    IF enc.kind \in {"ok", "spaced"} THEN [ok |-> TRUE, bytes |-> enc.bytes]
    ELSE [ok |-> FALSE, bytes |-> BadUtf8Bytes]

\* the value of a field of the body: t is its JSON type
NoField == [t |-> "absent", text |-> NotJsonText, enc |-> EmptyString]
NullField == [t |-> "null", text |-> NotJsonText, enc |-> EmptyString]
IntField(n) == [t |-> IF n = 0 THEN "int0" ELSE "int", text |-> NotJsonText, enc |-> EmptyString]
\* a string field, seen as a line and as base64
LineField(text) == [t |-> "str", text |-> text, enc |-> B64Encode(BadUtf8Bytes)]
B64Field(enc) == [t |-> "str", text |-> NotJsonText, enc |-> enc]

FieldTruthy(f) ==
    CASE f.t \in {"absent", "null", "int0"} -> FALSE
      [] f.t = "str" -> f.enc.kind # "empty"
      [] OTHER -> TRUE

\* the request body: bytes that are not UTF-8, text that is not JSON, or a
\* JSON value; a JSON object carries the two fields the handler reads
Body(kind, line, line_b64) == [kind |-> kind, line |-> line, line_b64 |-> line_b64]
ObjectBody(line, line_b64) == Body("dict", line, line_b64)

(***************************************************************************)
(* ScoreboardHandler                                                       *)
(*                                                                         *)
(* A handler run is a record: the status sent (0: none), how many          *)
(* responses were sent, the X-Dispatch-Status header, the steps taken in   *)
(* order, the exception that escaped the handler ("": none), and the       *)
(* table and limiter map it leaves.                                        *)
(***************************************************************************)
NoPayload == [type |-> "none"]

Started(tbl, reqs) ==
    [status |-> 0, responses |-> 0, xdispatch |-> FALSE, steps |-> <<>>,
     raised |-> "", table |-> tbl, requests |-> reqs, upserts |-> 0,
     stored |-> FALSE, dispatches |-> 0, entry |-> NoEntry,
     usedUuid |-> FALSE, ready |-> FALSE, payload |-> NoPayload,
     encoded |-> EmptyString, relayed |-> <<>>]

Step(r, name) == [r EXCEPT !.steps = Append(@, name)]

\* send_error / send_response: one response goes out; the client reads the
\* status of the first
Send(r, code) ==
    [r EXCEPT !.status = IF r.responses = 0 THEN code ELSE @,
              !.responses = @ + 1,
              !.steps = Append(@, "respond")]

\* an exception nobody catches: the connection closes with nothing sent
Raise(r, exc) == [r EXCEPT !.raised = exc]

\* _check_rate_limit
CheckRateLimit(r, client, t) ==
    LET adm == IsAllowed(RATE_LIMITER, r.requests, client, t)
        r1 == [Step(r, "rate") EXCEPT !.requests = adm.requests]
    IN  [ok |-> adm.allowed, run |-> IF adm.allowed THEN r1 ELSE Send(r1, 429)]

\* _authorize: "ok", "401", or the TypeError of compare_digest on a
\* non-ASCII str
Authorize(config, header) ==
    IF ~config.secret.set THEN "ok"
    ELSE LET provided == IF header.set THEN header.v ELSE <<>> IN
         IF provided = <<>> THEN "401"
         ELSE IF ~IsAscii(Strip(provided)) \/ ~IsAscii(config.secret.v) THEN "TypeError"
         ELSE IF Strip(provided) # config.secret.v THEN "401"
         ELSE "ok"

\* _read_json_body with the size guard written length >= MAX_PAYLOAD_BYTES
ReadJsonBodyBelowCap(clen, body) ==
    IF ~clen.set THEN [status |-> 411, raised |-> "", read |-> FALSE]
    ELSE LET length == ParseInt(clen.v) IN
         IF ~length.ok THEN [status |-> 411, raised |-> "", read |-> FALSE]
         ELSE IF length.n <= 0 \/ length.n >= MAX_PAYLOAD_BYTES
         THEN [status |-> 413, raised |-> "", read |-> FALSE]
         ELSE IF body.kind = "badutf8"
         THEN [status |-> 0, raised |-> "UnicodeDecodeError", read |-> TRUE]
         ELSE IF body.kind = "notjson"
         THEN [status |-> 400, raised |-> "", read |-> TRUE]
         ELSE [status |-> 0, raised |-> "", read |-> TRUE]

\* _read_json_body: status 0 and the parsed body, or the error status, or
\* the exception json.loads raises on bytes that are not UTF-8
ReadJsonBody(clen, body) ==
    IF ~clen.set THEN [status |-> 411, raised |-> "", read |-> FALSE]
    ELSE LET length == ParseInt(clen.v) IN
         IF ~length.ok THEN [status |-> 411, raised |-> "", read |-> FALSE]
         ELSE IF length.n <= 0 \/ length.n > MAX_PAYLOAD_BYTES
         THEN [status |-> 413, raised |-> "", read |-> FALSE]
         ELSE IF body.kind = "badutf8"
         THEN [status |-> 0, raised |-> "UnicodeDecodeError", read |-> TRUE]
         ELSE IF body.kind = "notjson"
         THEN [status |-> 400, raised |-> "", read |-> TRUE]
         ELSE [status |-> 0, raised |-> "", read |-> TRUE]

\* lines 283-299 with the base64 of `line` relayed whenever a line was sent
DecodeLineRelayingLine(body) ==
    LET line == body.line
        encoded == body.line_b64
    IN  IF ~FieldTruthy(encoded)
        THEN IF line.t # "str"
             THEN [status |-> 400, raised |-> "", decoded |-> NotJsonText,
                   encoded |-> EmptyString]
             ELSE [status |-> 0, raised |-> "", decoded |-> line.text,
                   encoded |-> B64Encode(Utf8Encode(line.text))]
        ELSE IF encoded.t # "str"
             THEN [status |-> 0, raised |-> "TypeError", decoded |-> NotJsonText,
                   encoded |-> EmptyString]
             ELSE IF ~B64Decode(encoded.enc).ok \/ ~B64Decode(encoded.enc).bytes.utf8
             THEN [status |-> 400, raised |-> "", decoded |-> NotJsonText,
                   encoded |-> encoded.enc]
             ELSE [status |-> 0, raised |-> "", decoded |-> B64Decode(encoded.enc).bytes.text,
                   encoded |-> IF line.t = "str" THEN B64Encode(Utf8Encode(line.text))
                               ELSE encoded.enc]

\* lines 283-299: the line and its base64 form out of the body's fields
DecodeLine(body) ==
    LET line == body.line
        encoded == body.line_b64
    IN  IF ~FieldTruthy(encoded)
        THEN IF line.t # "str"
             THEN [status |-> 400, raised |-> "", decoded |-> NotJsonText,
                   encoded |-> EmptyString]
             ELSE [status |-> 0, raised |-> "", decoded |-> line.text,
                   encoded |-> B64Encode(Utf8Encode(line.text))]
        ELSE IF encoded.t # "str"
             THEN [status |-> 0, raised |-> "TypeError", decoded |-> NotJsonText,
                   encoded |-> EmptyString]
             ELSE IF ~B64Decode(encoded.enc).ok \/ ~B64Decode(encoded.enc).bytes.utf8
             THEN [status |-> 400, raised |-> "", decoded |-> NotJsonText,
                   encoded |-> encoded.enc]
             ELSE [status |-> 0, raised |-> "", decoded |-> B64Decode(encoded.enc).bytes.text,
                   encoded |-> encoded.enc]

\* lines 317-329 without the X-Dispatch-Status header
RelayAndRespondNoHeader(r, run) ==
    LET r1 == [Step(r, "relay") EXCEPT !.dispatches = @ + 1]
    IN  IF run.result \notin {"ok", "RuntimeError"}
        THEN Raise(r1, run.result)
        ELSE Send(r1, 202)

\* lines 317-329 with dispatch called again when it raised RuntimeError
RelayAndRespondTwice(r, run) ==
    LET r1 == [Step(r, "relay") EXCEPT
                  !.dispatches = IF run.result = "RuntimeError" THEN @ + 2 ELSE @ + 1]
    IN  IF run.result \notin {"ok", "RuntimeError"}
        THEN Raise(r1, run.result)
        ELSE [Send(r1, 202) EXCEPT !.xdispatch = run.result = "RuntimeError"]

\* lines 317-329: dispatch, then the 202
RelayAndRespond(r, run) ==
    LET r1 == [Step(r, "relay") EXCEPT !.dispatches = @ + 1,
                                       !.relayed = Append(@, r.encoded)]
    IN  IF run.result \notin {"ok", "RuntimeError"}
        THEN Raise(r1, run.result)
        ELSE LET dispatch_warning ==
                     IF run.result = "RuntimeError" THEN Some(run.message) ELSE None
             IN  [Send(r1, 202) EXCEPT
                     !.xdispatch = dispatch_warning.set /\ dispatch_warning.v # <<>>]

\* lines 309-315: the upsert and its except clause
Persist(r, entry, io) ==
    LET up == UpsertEntry(r.table, entry, io)
        r1 == [Step(r, "persist") EXCEPT !.upserts = @ + 1, !.table = up.table,
                                          !.stored = (up.raised = "")]
    IN  IF up.raised = "sqlite3.Error" THEN Send(r1, 500)
        ELSE IF up.raised # "" THEN Raise(r1, up.raised)
        ELSE r1

\* lines 309-329, entered with the normalized entry in r.entry
StoreAndRelay(r, io, run) ==
    LET r1 == Persist([r EXCEPT !.ready = FALSE], r.entry, io)
    IN  IF r1.stored THEN RelayAndRespond(r1, run) ELSE r1

\* lines 279-308: body, line, entry; ready when normalize_entry returned
ReadAndNormalize(r, req, uuid, t) ==
    LET body == ReadJsonBody(req.clen, req.body)
        r1 == IF body.read THEN Step(Step(r, "body"), "read") ELSE Step(r, "body")
    IN  IF body.status # 0 THEN Send(r1, body.status)
        ELSE IF body.raised # "" THEN Raise(r1, body.raised)
        ELSE IF req.body.kind = "null" THEN r1
        ELSE IF req.body.kind # "dict" THEN Raise(r1, "AttributeError")
        ELSE LET dec == DecodeLine(req.body)
                 r2 == Step(r1, "decode")
             IN  IF dec.status # 0 THEN Send(r2, dec.status)
                 ELSE IF dec.raised # "" THEN Raise(r2, dec.raised)
                 ELSE IF dec.decoded.kind = "notjson" THEN Send(r2, 400)
                 ELSE IF dec.decoded.kind # "dict"
                 THEN Raise(Step(r2, "normalize"), "AttributeError")
                 ELSE IF NormalizeRaised(dec.decoded.payload) # ""
                 THEN Raise(Step(r2, "normalize"),
                            NormalizeRaised(dec.decoded.payload))
                 ELSE LET data == dec.decoded.payload
                          entry == NormalizeEntry(data, uuid, t)
                          r3 == [Step(r2, "normalize") EXCEPT
                                    !.entry = entry,
                                    !.usedUuid = ~Truthy(data["id"]),
                                    !.encoded = dec.encoded]
                      IN  [r3 EXCEPT !.ready = TRUE]

\* self.path of the request line
RawPath(req) == IF req.query = "" THEN req.path ELSE req.path \o "?" \o req.query

\* do_POST down to line 308 without the return of line 277
DoPostNoReturnAfter401(req, config, tbl, reqs, uuid, t) ==
    LET rl == CheckRateLimit(Started(tbl, reqs), req.client, t)
    IN  IF ~rl.ok THEN rl.run
        ELSE IF RawPath(req) # "/scoreboard" THEN Send(rl.run, 404)
        ELSE LET auth == Authorize(config, req.secret)
                 r1 == Step(rl.run, "auth")
             IN  IF auth = "401" THEN ReadAndNormalize(Send(r1, 401), req, uuid, t)
                 ELSE IF auth # "ok" THEN Raise(r1, auth)
                 ELSE ReadAndNormalize(r1, req, uuid, t)

\* do_POST down to line 308
DoPostUntilNormalized(req, config, tbl, reqs, uuid, t) ==
    LET rl == CheckRateLimit(Started(tbl, reqs), req.client, t)
    IN  IF ~rl.ok THEN rl.run
        ELSE IF RawPath(req) # "/scoreboard" THEN Send(rl.run, 404)
        ELSE LET auth == Authorize(config, req.secret)
                 r1 == Step(rl.run, "auth")
             IN  IF auth = "401" THEN Send(r1, 401)
                 ELSE IF auth # "ok" THEN Raise(r1, auth)
                 ELSE ReadAndNormalize(r1, req, uuid, t)

LEADERBOARD_LIMIT_DEFAULT == 10
WeekDays == 7
MonthDays == 30

\* parse_qs(query): the first value of each parameter, None without one
Query(limit, since) == [limit |-> limit, since |-> since]
NoQuery == Query(None, None)

\* the clock reading the given number of days before t; the clock starts at
\* 0 and no reading is earlier
DaysBefore(t, days) == Max(0, t - days * 86400)

\* now.replace(hour=0, minute=0, second=0, microsecond=0)
StartOfDay(t) == t - (t % 86400)

\* _resolve_query_params, lines 346-353: the limit
ResolveLimit(query) ==
    LET parsed == IF query.limit.set THEN ParseInt(query.limit.v)
                  ELSE [ok |-> FALSE, n |-> 0]
    IN  IF parsed.ok THEN Max(1, Min(100, parsed.n)) ELSE LEADERBOARD_LIMIT_DEFAULT

\* _resolve_query_params, lines 355-373: since
ResolveSince(query, t) ==
    IF ~query.since.set THEN None
    ELSE LET since_str == Lower(query.since.v)
         IN  IF since_str = <<"t", "o", "d", "a", "y">>
             THEN Some(IsoFormat(StartOfDay(t)))
             ELSE IF since_str = <<"w", "e", "e", "k">>
             THEN Some(IsoFormat(DaysBefore(t, WeekDays)))
             ELSE IF since_str = <<"m", "o", "n", "t", "h">>
             THEN Some(IsoFormat(DaysBefore(t, MonthDays)))
             ELSE Some(since_str)

\* _resolve_query_params(query) at clock reading t
ResolveQueryParams(query, t) ==
    [limit |-> ResolveLimit(query), since |-> ResolveSince(query, t)]

\* _render_table: the cells of each row
RenderTable(entries) ==
    [i \in DOMAIN entries |->
        [initials |-> entries[i].initials, level |-> entries[i].level,
         runTimeTicks |-> entries[i].runTimeTicks]]

\* _write_json(payload): the body is the payload
WriteJson(r, payload) ==
    [Send(r, 200) EXCEPT !.payload = [type |-> "json", body |-> payload]]

\* _write_html(payload): the two tables
WriteHtml(r, payload) ==
    [Send(r, 200) EXCEPT
        !.payload = [type |-> "html", topLevels |-> RenderTable(payload.topLevels),
                     fastestRuns |-> RenderTable(payload.fastestRuns)]]

\* the results REPOSITORY.leaderboard may return to do_GET
GetPayloads(req, tbl, t) ==
    LET params == ResolveQueryParams(req.query, t)
    IN  Leaderboard(tbl, params.limit, params.since)

\* do_GET with the runs the fastest runs list leaves out deleted
DoGetRunPurging(req, tbl, reqs, t, io, payload) ==
    LET rl == CheckRateLimit(Started(tbl, reqs), req.client, t)
    IN  IF ~rl.ok THEN rl.run
        ELSE IF req.path = "/healthz" THEN Send(rl.run, 200)
        ELSE IF req.path \in {"/", "/scoreboard", "/leaderboard"}
        THEN LET r1 == [Step(rl.run, "query") EXCEPT
                           !.table = {row \in tbl : EntryOf(row) \in
                                         SeqEntries(payload.fastestRuns)}]
             IN  IF io # "ok" THEN Raise(r1, "sqlite3.Error")
                 ELSE IF req.path = "/" THEN WriteHtml(r1, payload)
                 ELSE WriteJson(r1, payload)
        ELSE Send(rl.run, 404)

\* do_GET: payload is what REPOSITORY.leaderboard returns when the query
\* does not fail; its exception is not caught
DoGetRun(req, tbl, reqs, t, io, payload) ==
    LET rl == CheckRateLimit(Started(tbl, reqs), req.client, t)
    IN  IF ~rl.ok THEN rl.run
        ELSE IF req.path = "/healthz" THEN Send(rl.run, 200)
        ELSE IF req.path \in {"/", "/scoreboard", "/leaderboard"}
        THEN LET r1 == Step(rl.run, "query")
             IN  IF io # "ok" THEN Raise(r1, "sqlite3.Error")
                 ELSE IF req.path = "/" THEN WriteHtml(r1, payload)
                 ELSE WriteJson(r1, payload)
        ELSE Send(rl.run, 404)

(***************************************************************************)
(* The requests the model sends                                            *)
(***************************************************************************)
Chars(id) == <<id>>

\* a score payload with the given keys, every other key missing
Payload(given) == [k \in PayloadKeys |-> IF k \in DOMAIN given THEN given[k] ELSE Absent]

Payloads ==
    {Payload([id |-> JStr(Chars("a")), initials |-> JStr(<<" ", "a", "b", " ">>),
              level |-> JInt(7), runTimeTicks |-> JInt(5), victory |-> JBool(TRUE),
              timestampUtc |-> JStr(IsoFormat(0))]),
     Payload([id |-> JStr(Chars("a")), initials |-> JStr(<<"x", "y", "z", "w">>),
              score |-> JStr(<<"3">>), run_time_ticks |-> JInt(2),
              victory |-> JStr(<<"y", "e", "s">>), timestampUtc |-> JStr(IsoFormat(1))]),
     Payload([id |-> JStr(Chars("b")), level |-> JInt(0 - 1), victory |-> JInt(0),
              timestampUtc |-> JStr(IsoFormat(1))]),
     Payload([id |-> JStr(Chars("a")), level |-> JStr(<<"9", "9", "9">>),
              timestampUtc |-> JStr(IsoFormat(1))])}

Texts ==
    {NotJsonText, JsonNullText, JsonListText, JsonScalarText}
        \cup {DictText(p) : p \in Payloads}

SecretHeaders ==
    {None, Some(<<>>), Some(SecretValue), Some(<<" ", "s", "k", " ">>),
     Some(<<"n", "o">>), Some(<<EAcute>>)}

ContentLengths ==
    {None, Some(<<"x">>), Some(<<"0">>), Some(<<"-", "1">>), Some(<<"1", "7">>),
     Some(<<"4", "0", "9", "6">>), Some(<<"4", "0", "9", "7">>)}

LineFields == {NoField, NullField, IntField(5)} \cup {LineField(tx) : tx \in Texts}

B64Fields ==
    {NullField, IntField(0), IntField(5), B64Field(EmptyString),
     B64Field(NonAsciiString), B64Field(BadPaddingString),
     B64Field(B64Encode(BadUtf8Bytes))}
        \cup {B64Field(B64Encode(Utf8Encode(tx))) : tx \in Texts}

GoodText == DictText(CHOOSE p \in Payloads : p["level"] = JInt(7))
OtherText == DictText(CHOOSE p \in Payloads : p["run_time_ticks"] = JInt(2))

Bodies ==
    {Body(k, NoField, NoField) : k \in {"badutf8", "notjson", "null", "list", "scalar"}}
        \cup {ObjectBody(l, NoField) : l \in LineFields}
        \cup {ObjectBody(NoField, e) : e \in B64Fields}
        \cup {ObjectBody(LineField(OtherText), B64Field(B64Encode(Utf8Encode(GoodText)))),
              ObjectBody(LineField(OtherText), B64Field(EmptyString)),
              ObjectBody(LineField(OtherText), B64Field(B64Spaced(Utf8Encode(GoodText))))}

Request(path, query, client, secret, clen, body) ==
    [path |-> path, query |-> query, client |-> client, secret |-> secret,
     clen |-> clen, body |-> body]

GoodLength == Some(<<"1", "7">>)
GoodBody == ObjectBody(LineField(GoodText), NoField)

\* Every input is varied once the handler reads it: the path, then the
\* secret header, then Content-Length, then the body.
PostRequests ==
    {Request(p[1], p[2], c, Some(SecretValue), GoodLength, GoodBody) :
        p \in {<<"/other", "">>, <<"/scoreboard", "x=1">>}, c \in Clients}
        \cup {Request("/scoreboard", "", c, h, GoodLength, GoodBody) :
                h \in SecretHeaders, c \in Clients}
        \cup {Request("/scoreboard", "", c, Some(SecretValue), l, GoodBody) :
                l \in ContentLengths, c \in Clients}
        \cup {Request("/scoreboard", "", c, Some(SecretValue), GoodLength, b) :
                b \in Bodies, c \in Clients}

GetRequest(path, query, client) ==
    Request(path, query, client, None, None, Body("notjson", NoField, NoField))

GetRequests ==
    {GetRequest(p, NoQuery, c) :
        p \in {"/healthz", "/", "/scoreboard", "/leaderboard", "/other"}, c \in Clients}
        \cup {GetRequest("/scoreboard", Query(Some(<<"1">>), None), c) : c \in Clients}

(***************************************************************************)
(* The server                                                              *)
(***************************************************************************)
RECURSIVE SetToSeq(_)
SetToSeq(S) ==
    IF S = {} THEN <<>>
    ELSE LET x == CHOOSE y \in S : TRUE IN <<x>> \o SetToSeq(S \ {x})

\* the requests, numbered: the state names a request by its number
PostRequestSeq == SetToSeq(PostRequests)
GetRequestSeq == SetToSeq(GetRequests)

VARIABLES
    cfg,        \* CONFIG
    table,      \* the rows of the scoreboard table
    requests,   \* RATE_LIMITER.requests
    now,        \* time.time()
    fresh,      \* how many uuid4() values were handed out
    last,       \* the request handled last and how its handler ran
    latest,     \* per id, the entry of the last upsert that committed
    admitted,   \* per client key, the times of the calls is_allowed admitted
    threads,    \* the handler threads in flight and the cleanup of the main loop
    conn        \* REPOSITORY._conn: its open transaction

vars == <<cfg, table, requests, now, fresh, last, latest, admitted, threads, conn>>

\* no handler thread runs and the main loop is not in cleanup_old_entries
NoThreads == [run |-> <<>>, sweep |-> [pc |-> "idle", keys |-> <<>>, kept |-> <<>>, at |-> 0]]

\* the connection in autocommit state; in a transaction, undo is what
\* ROLLBACK restores
Autocommit == [in_transaction |-> FALSE, undo |-> {}]

\* uuid4().hex giving the same identifier every time
UuidRepeated(k) == <<"u">> \o NatStr(0)

\* uuid4().hex: the k-th identifier handed out, different from all before
Uuid(k) == <<"u">> \o NatStr(k)

\* what a client, or a test, sees of a handler run
Outcome(r) ==
    [status |-> r.status, responses |-> r.responses, xdispatch |-> r.xdispatch,
     steps |-> r.steps, raised |-> r.raised, upserts |-> r.upserts,
     stored |-> r.stored, dispatches |-> r.dispatches, entry |-> r.entry,
     payload |-> r.payload, relayed |-> r.relayed]

\* how a run of dispatch ends, for its caller
Endings(runs) ==
    {[result |-> r.result, message |-> r.message, contacted |-> r.replies # <<>>] :
        r \in runs}
RetryEndings == Endings(RetryLoop)
DispatchEndings(config) ==
    IF ~config.repo.set \/ ~config.token.set THEN Endings(Dispatch(config))
    ELSE RetryEndings

Init ==
    /\ cfg \in Configs
    /\ table = {}
    /\ requests = [k \in {} |-> <<>>]
    /\ now = 0
    /\ fresh = 0
    /\ last = [method |-> "none", req |-> 0, io |-> "ok", relay |-> "none",
               contacted |-> FALSE, note |-> "", out |-> Outcome(Started({}, <<>>))]
    /\ latest = [k \in {} |-> NoEntry]
    /\ admitted = [k \in {} |-> <<>>]
    /\ threads = NoThreads
    /\ conn = Autocommit

\* dispatch was not called
NotRelayed == [result |-> "none", message |-> <<>>, contacted |-> FALSE]

Finish(method, i, io, run, r) ==
    /\ r.usedUuid => fresh < MaxFresh
    /\ table' = r.table
    /\ requests' = r.requests
    /\ fresh' = IF r.usedUuid THEN fresh + 1 ELSE fresh
    /\ last' = [method |-> method, req |-> i, io |-> io,
                relay |-> IF r.dispatches > 0 THEN run.result ELSE "none",
                contacted |-> run.contacted /\ r.dispatches > 0,
                note |-> "", out |-> Outcome(r)]
    /\ latest' = IF r.stored
                 THEN [k \in DOMAIN latest \cup {r.entry.id} |->
                          IF k = r.entry.id THEN r.entry ELSE latest[k]]
                 ELSE latest
    /\ UNCHANGED <<cfg, now, admitted, threads, conn>>

\* one POST, handled from the first line of do_POST to its return; the
\* database and the relay target answer only a handler that calls them
DoPOSTOf(posts) ==
    \E i \in 1..Len(posts) :
        LET r == DoPostUntilNormalized(posts[i], cfg, table, requests,
                                       Uuid(fresh), now)
        IN  IF r.ready
            THEN \E io \in IoOutcomes, run \in DispatchEndings(cfg) :
                    /\ io # "ok" => run.result = "ok"
                    /\ Finish("POST", i, io, run, StoreAndRelay(r, io, run))
            ELSE Finish("POST", i, "ok", NotRelayed, r)

DoPOST == DoPOSTOf(PostRequestSeq)

\* one GET out of the given ones
DoGETOf(gets) ==
    \E i \in 1..Len(gets), io \in IoOutcomes :
        \E payload \in GetPayloads(gets[i], table, now) :
            Finish("GET", i, io, NotRelayed,
                   DoGetRun(gets[i], table, requests, now, io, payload))

DoGET == DoGETOf(GetRequestSeq)

\* the clock moves
Tick ==
    /\ now < MaxTime
    /\ now' = now + 1
    /\ UNCHANGED <<cfg, table, requests, fresh, last, latest, admitted, threads, conn>>

Next == DoPOST \/ DoGET \/ Tick

Spec == Init /\ [][Next]_vars

(***************************************************************************)
(* Properties of the handlers                                              *)
(***************************************************************************)
LastIsPost == last.method = "POST"
LastRequest == PostRequestSeq[last.req]
Has(steps, name) == \E i \in 1..Len(steps) : steps[i] = name
StepOrder ==
    <<"rate", "auth", "body", "read", "decode", "normalize", "persist", "relay",
      "respond">>
Rank(name) == CHOOSE i \in 1..Len(StepOrder) : StepOrder[i] = name
InStepOrder(steps) ==
    \A i, j \in 1..Len(steps) : i < j => Rank(steps[i]) < Rank(steps[j])
Ids(tbl) == {r.id : r \in tbl}
RejectStatuses == {429, 404, 401, 411, 413, 400}

\* C1: a POST whose upsert succeeded and whose dispatch raised RuntimeError
\* (permanent 4xx, or retries exhausted) is answered 202 with
\* X-Dispatch-Status: failed and its entry is in the table afterwards; when
\* dispatch returned, the 202 carries no X-Dispatch-Status header.
C1_RelayFailureKeeps202 ==
    (LastIsPost /\ last.out.stored) =>
        /\ last.relay = "RuntimeError" =>
              /\ last.out.status = 202
              /\ last.out.responses = 1
              /\ last.out.xdispatch
              /\ RowOf(last.out.entry) \in table
        /\ last.relay = "ok" =>
              /\ last.out.status = 202
              /\ ~last.out.xdispatch

C1_RelayFailedAfterStore ==
    /\ LastIsPost
    /\ last.out.stored
    /\ last.relay = "RuntimeError"
    /\ last.out.xdispatch
    /\ RowOf(last.out.entry) \in table

\* C2: the steps of a POST occur in the order rate-check, authorization, body
\* read, decode, normalize, persist, relay, respond; the relay is attempted
\* only after the upsert succeeded; an upsert that fails is answered 500 and
\* no relay attempt is made.
C2_StepsInOrderAnd500 ==
    LastIsPost =>
        /\ InStepOrder(last.out.steps)
        /\ Has(last.out.steps, "relay") => last.out.stored
        /\ (last.out.upserts > 0 /\ ~last.out.stored) =>
              /\ last.out.status = 500
              /\ last.out.dispatches = 0

\* C3: a POST rejected with 429, 404, 401, 411, 413 or 400 leaves the table
\* as it was and calls neither upsert_entry nor dispatch.
C3_RejectedLeavesStore ==
    [][(last'.method = "POST" /\ last'.out.status \in RejectStatuses) =>
            /\ table' = table
            /\ last'.out.upserts = 0
            /\ last'.out.dispatches = 0]_vars

C3_RejectedWithRows ==
    /\ LastIsPost
    /\ last.out.status = 400
    /\ Has(last.out.steps, "decode")
    /\ table # {}

\* the header value equals the configured secret (the handler strips it)
HeaderMatches(header, secret) == header.set /\ Strip(header.v) = secret
ReachedAuthorization == LastIsPost /\ Has(last.out.steps, "auth")
PassedAuthorization == Has(last.out.steps, "body")

\* C4: with a secret configured, a POST whose X-Scoreboard-Secret header is
\* absent or does not match is answered 401 and is neither persisted nor
\* relayed, and a POST with the matching secret passes authorization; with
\* no secret configured every POST passes authorization.
C4_SecretDecidesAuthorization ==
    ReachedAuthorization =>
        IF cfg.secret.set
        THEN IF HeaderMatches(LastRequest.secret, cfg.secret.v)
             THEN PassedAuthorization
             ELSE /\ last.out.status = 401
                  /\ last.out.upserts = 0
                  /\ last.out.dispatches = 0
        ELSE PassedAuthorization

\* C5: a POST answered 202 made exactly one upsert, of its normalized entry,
\* which committed before the response was sent, and at most one dispatch
\* call.
C5_AcceptedStoredOnce ==
    (LastIsPost /\ last.out.status = 202) =>
        /\ last.out.upserts = 1
        /\ last.out.stored
        /\ RowOf(last.out.entry) \in table
        /\ latest[last.out.entry.id] = last.out.entry
        /\ \E i, j \in 1..Len(last.out.steps) :
              /\ last.out.steps[i] = "persist"
              /\ last.out.steps[j] = "respond"
              /\ i < j
        /\ last.out.dispatches <= 1

C5_AcceptedAndRelayed ==
    /\ LastIsPost
    /\ last.out.status = 202
    /\ last.out.dispatches = 1
    /\ last.relay = "ok"
    /\ cfg.repo.set /\ cfg.token.set

\* C6: every POST ends with exactly one response, whose status is one of
\* 202, 400, 401, 404, 411, 413, 429, 500; a 5xx only when storage failed.
C6_ExactlyOneResponse ==
    LastIsPost =>
        /\ last.out.responses = 1
        /\ last.out.status \in {202, 400, 401, 404, 411, 413, 429, 500}
        /\ last.out.status >= 500 => (last.out.upserts = 1 /\ ~last.out.stored)

\* the line the handler is to parse: line_b64 decoded when it is given,
\* else the line field
BadB64(f) ==
    /\ f.t # "absent"
    /\ FieldTruthy(f)
    /\ ~(f.t = "str" /\ B64Decode(f.enc).ok /\ f.enc.bytes.utf8)
GivenLine(body) ==
    IF FieldTruthy(body.line_b64) /\ ~BadB64(body.line_b64)
    THEN body.line_b64.enc.bytes.text
    ELSE body.line.text
SizeValid(req) ==
    /\ req.clen.set
    /\ ParseInt(req.clen.v).ok
    /\ ParseInt(req.clen.v).n \in 1..MAX_PAYLOAD_BYTES

\* C7: an authorized, size-valid POST is answered 400 and persists nothing
\* when (a) its body is not valid JSON, (b) the body has neither a string
\* line nor a line_b64, (c) line_b64 cannot be decoded as base64/UTF-8,
\* (d) the decoded line is not a JSON object.
C7_BadBodyIs400 ==
    (LastIsPost /\ PassedAuthorization /\ SizeValid(LastRequest)) =>
        LET body == LastRequest.body IN
        (\/ body.kind \in {"badutf8", "notjson"}
         \/ body.kind = "dict" /\ body.line.t # "str" /\ body.line_b64.t = "absent"
         \/ body.kind = "dict" /\ BadB64(body.line_b64)
         \/ body.kind = "dict" /\ (body.line.t = "str" \/ FieldTruthy(body.line_b64))
               /\ GivenLine(body).kind # "dict")
        => (last.out.status = 400 /\ last.out.upserts = 0)

\* C9: over any sequence of GET and POST requests, accepted or rejected, the
\* set of ids in the table never shrinks.
C9_IdsNeverShrink == [][Ids(table) \subseteq Ids(table')]_vars

C9_TwoIdsThenFailure ==
    /\ Cardinality(Ids(table)) = 2
    /\ last.out.status \in {429, 500} \/ last.method = "GET"

(***************************************************************************)
(* The repository on its own: upsert_entry called directly                 *)
(***************************************************************************)
NoEnvironment == [secret |-> None, repo |-> None, token |-> None]

\* entries as normalize_entry returns them, differing in every field
RepoEntries ==
    [id : {Chars("a"), Chars("b")},
     initials : {<<"A", "B">>, <<"X", "Y", "Z">>},
     level : {0, 7},
     runTimeTicks : {0, 5},
     victory : BOOLEAN,
     timestampUtc : {IsoFormat(0), IsoFormat(1)}]

InitRepo == Init /\ cfg = LoadConfig(NoEnvironment)

\* REPOSITORY.upsert_entry(entry)
UpsertOf(entry, io) ==
        LET up == UpsertEntry(table, entry, io)
            known == entry.id \in DOMAIN latest
        IN  /\ table' = up.table
            /\ latest' = IF up.raised = ""
                         THEN [k \in DOMAIN latest \cup {entry.id} |->
                                  IF k = entry.id THEN entry ELSE latest[k]]
                         ELSE latest
            /\ last' = [method |-> "upsert_entry",
                        note |-> IF up.raised # "" THEN "raised"
                                 ELSE IF ~known THEN "inserted"
                                 ELSE IF latest[entry.id] = entry THEN "repeated"
                                 ELSE "replaced",
                        count |-> Cardinality(table)]
            /\ UNCHANGED <<cfg, requests, now, fresh, admitted, threads, conn>>

Upsert == \E entry \in RepoEntries, io \in IoOutcomes : UpsertOf(entry, io)

NextRepo == Upsert

SpecRepo == InitRepo /\ [][NextRepo]_vars

\* C8: after any sequence of upserts the table holds exactly one row per
\* distinct id upserted, whose initials, level, runTimeTicks, victory and
\* timestampUtc are those of the most recent upsert of that id; an upsert of
\* an id already there leaves the number of rows as it was.
C8_OneRowPerIdLatestValues ==
    /\ Ids(table) = DOMAIN latest
    /\ \A id \in DOMAIN latest :
          /\ Cardinality({r \in table : r.id = id}) = 1
          /\ \A r \in table : r.id = id => EntryOf(r) = latest[id]
    /\ (last.method = "upsert_entry" /\ last.note \in {"replaced", "repeated"}) =>
          Cardinality(table) = last.count

C8_ReplacedWithTwoIds ==
    /\ last.method = "upsert_entry"
    /\ last.note = "replaced"
    /\ Cardinality(table) = 2
    /\ last.count = 2

(***************************************************************************)
(* The limiter on its own: RateLimiter(MaxRequests, WindowSeconds)         *)
(***************************************************************************)
LimiterClients == {"c1", "c2"}

Limiter == RateLimiter(MaxRequests, WindowSeconds)

\* one call of is_allowed(ip) at the clock reading `now`
IsAllowedCall ==
    \E ip \in LimiterClients :
        LET adm == IsAllowed(Limiter, requests, ip, now)
        IN  /\ requests' = adm.requests
            /\ admitted' = IF adm.allowed
                           THEN SetTimestamps(admitted, ip,
                                              Append(Timestamps(admitted, ip), now))
                           ELSE admitted
            /\ last' = [method |-> "is_allowed", key |-> ip, allowed |-> adm.allowed]
            /\ UNCHANGED <<cfg, table, now, fresh, latest, threads, conn>>

LimiterTick ==
    /\ now < LimiterHorizon
    /\ now' = now + 1
    /\ UNCHANGED <<cfg, table, requests, fresh, last, latest, admitted, threads, conn>>

NextLimiter == IsAllowedCall \/ LimiterTick

SpecLimiter == InitRepo /\ [][NextLimiter]_vars

CountOf(seq, x) == Cardinality({i \in 1..Len(seq) : seq[i] = x})
InWindow(seq, t) == Cardinality({i \in 1..Len(seq) : seq[i] > t - WindowSeconds})
IsCallStep ==
    /\ last'.method = "is_allowed"
    /\ ~ UNCHANGED <<requests, last, admitted>>

\* C10: a call of is_allowed for a key returns true exactly when fewer than
\* MaxRequests of the calls admitted before for that key have timestamps
\* inside the trailing window, and adds the current time to the key's list
\* exactly when it returns true.
C10_AdmitsBelowLimit ==
    [][IsCallStep =>
          LET ip == last'.key IN
          /\ last'.allowed <=> InWindow(Timestamps(admitted, ip), now) < MaxRequests
          /\ CountOf(Timestamps(requests', ip), now) =
                CountOf(Timestamps(requests, ip), now)
                    + (IF last'.allowed THEN 1 ELSE 0)]_vars

\* a key was admitted MaxRequests times, then again once the window had
\* elapsed, and is now rejected with the new window full
C10_RejectedAfterReadmission ==
    /\ last.method = "is_allowed"
    /\ ~last.allowed
    /\ Len(Timestamps(admitted, last.key)) = 2 * MaxRequests
    /\ CountOf(Timestamps(admitted, last.key), 0) = MaxRequests
    /\ CountOf(Timestamps(requests, last.key), now) = MaxRequests

(***************************************************************************)
(* dispatch on its own, against every behaviour of the relay target        *)
(***************************************************************************)
\* dispatch(encoded_line), from its first line to its return or raise
DispatchCall ==
    \E run \in Dispatch(cfg) :
        /\ last' = [method |-> "dispatch", run |-> run]
        /\ UNCHANGED <<cfg, table, requests, now, fresh, latest, admitted, threads, conn>>

NextDispatch == DispatchCall

SpecDispatch == Init /\ [][NextDispatch]_vars

RelayConfigured == cfg.repo.set /\ cfg.token.set
LastIsDispatch == last.method = "dispatch"
Is2xx(reply) == reply.kind = "http" /\ reply.code \in 200..299
IsPermanent(reply) ==
    reply.kind = "http" /\ reply.code \in 400..499 /\ reply.code # 429
\* a 5xx, a 429, or an error below HTTP
IsRetriable(reply) ==
    \/ reply.kind = "http" /\ (reply.code >= 500 \/ reply.code = 429)
    \/ reply.kind # "http"
Codes(replies) == [i \in 1..Len(replies) |-> replies[i].code]

\* C13: with the relay configured dispatch makes at most 5 attempts; a 2xx
\* ends it with success and no further attempt; a 4xx other than 429 raises
\* RuntimeError after that attempt; a 5xx, a 429 or a network-level error is
\* followed by another attempt; five retriable failures raise RuntimeError.
C13_AttemptsAndOutcome ==
    (LastIsDispatch /\ RelayConfigured) =>
        LET run == last.run
            n == Len(run.replies)
        IN  /\ n <= 5
            /\ \A i \in 1..n :
                  /\ Is2xx(run.replies[i]) => (i = n /\ run.result = "ok")
                  /\ IsPermanent(run.replies[i]) =>
                        (i = n /\ run.result = "RuntimeError")
                  /\ (IsRetriable(run.replies[i]) /\ i < 5) => n > i
            /\ (n = 5 /\ IsRetriable(run.replies[5])) => run.result = "RuntimeError"
            /\ run.result = "ok" => (n >= 1 /\ Is2xx(run.replies[n]))
            /\ run.result \in {"ok", "RuntimeError"}

\* C14: the wait before the n-th retry (n = 1..4) is min(2^(n-1), 10); no
\* wait exceeds 10; for the replies 500, 500, 200 the waits are 1 then 2.
C14_BackoffDoubles ==
    LastIsDispatch =>
        LET waits == last.run.waits IN
        /\ \A n \in 1..4 : n <= Len(waits) => waits[n] = Min(2 ^ (n - 1), 10)
        /\ \A n \in 1..Len(waits) : waits[n] <= 10
        /\ Codes(last.run.replies) = <<500, 500, 200>> => waits = <<1, 2>>

C14_SucceededOnFifthAttempt ==
    /\ LastIsDispatch
    /\ last.run.result = "ok"
    /\ Len(last.run.replies) = 5
    /\ last.run.waits = <<1, 2, 4, 8>>

\* C15: without a repo or a token dispatch contacts nobody and returns, so a
\* POST that was persisted is answered 202 without X-Dispatch-Status;
\* load_config leaves the relay enabled only when SCOREBOARD_REPO and the
\* token are both non-empty after trimming.
C15_DisabledRelayIsNoOp ==
    /\ \A env \in Environments :
          LET config == LoadConfig(env) IN
          (config.repo.set /\ config.token.set) =>
              /\ env.repo.set /\ Strip(env.repo.v) # <<>>
              /\ env.token.set /\ Strip(env.token.v) # <<>>
    /\ (LastIsPost /\ ~RelayConfigured /\ last.out.stored) =>
          /\ last.out.dispatches = 1
          /\ ~last.contacted
          /\ last.relay = "ok"
          /\ last.out.status = 202
          /\ ~last.out.xdispatch

C15_StoredWithRelayDisabled ==
    /\ LastIsPost
    /\ ~RelayConfigured
    /\ last.out.stored
    /\ last.out.status = 202
    /\ last.out.dispatches = 1

\* C16: a relay attempt that times out counts as a failed attempt, so only
\* RuntimeError can escape dispatch and a POST that was persisted is
\* answered 202.
C16_TimeoutStill202 ==
    (LastIsPost /\ last.out.dispatches = 1) =>
        /\ last.relay \in {"ok", "RuntimeError"}
        /\ last.out.status = 202
        /\ last.out.responses = 1

(***************************************************************************)
(* normalize_entry on its own, over values of every JSON type              *)
(***************************************************************************)
JsonStrings ==
    {<<>>, <<" ">>, <<" ", "\t">>, <<"7">>, <<" ", "7", " ">>, <<"-", "3">>,
     <<"+", "5">>, <<"1", "_", "0">>, <<"3", ".", "5">>, <<"0">>, <<"1">>,
     <<"a", "b">>, <<" ", "a", "b", "c", "d", " ">>, <<"a", " ", " ", "b">>,
     <<SharpS, SharpS, SharpS>>, <<"a", SharpS>>,
     <<"y">>, <<"y", "e", "s">>, <<" ", "Y", "e", "s", " ">>,
     <<"t", "r", "u", "e">>, <<"T", "R", "U", "E">>, <<"t", "r", "u">>,
     <<"y", "e", "s", "s">>, <<"n", "o">>}

JsonValues ==
    {JNull, JBool(TRUE), JBool(FALSE), JInt(0), JInt(7), JInt(0 - 1),
     JFloat(<<"3", ".", "5">>, TRUE), JFloat(<<"0", ".", "0">>, FALSE),
     JList(0), JList(1), JDict(0), JDict(1)}
        \cup {JStr(str) : str \in JsonStrings}

\* the empty mapping, every mapping with one key, and mappings in which a
\* key and its legacy alternate are both given
NormalizeInputs ==
    {EmptyPayload}
        \cup {[EmptyPayload EXCEPT ![k] = v] : k \in PayloadKeys, v \in JsonValues}
        \cup {[EmptyPayload EXCEPT !["level"] = v, !["score"] = JInt(7)] :
                v \in {JNull, JInt(0), JStr(<<"a", "b">>)}}
        \cup {[EmptyPayload EXCEPT !["runTimeTicks"] = v, !["run_time_ticks"] = JInt(7)] :
                v \in {JNull, JInt(0), JStr(<<"a", "b">>)}}

\* normalize_entry(data)
Normalize ==
    \E data \in NormalizeInputs :
        LET raised == NormalizeRaised(data)
            uses == ~Truthy(data["id"])
        IN  /\ uses => fresh < MaxFresh
            /\ fresh' = IF uses THEN fresh + 1 ELSE fresh
            /\ last' = [method |-> "normalize_entry", data |-> data,
                        raised |-> raised,
                        entry |-> IF raised = ""
                                  THEN NormalizeEntry(data, Uuid(fresh), now)
                                  ELSE NoEntry]
            /\ UNCHANGED <<cfg, table, requests, now, latest, admitted, threads, conn>>

NextNormalize == Normalize \/ Tick

SpecNormalize == InitRepo /\ [][NextNormalize]_vars

LastIsNormalize == last.method = "normalize_entry"

\* C17: normalize_entry returns level >= 0 and runTimeTicks >= 0, so every
\* row a POST stored has non-negative level and run_time_ticks.
C17_NonNegativeLevelAndTicks ==
    /\ (LastIsPost /\ Has(last.out.steps, "normalize") /\ last.out.raised = "") =>
          (last.out.entry.level >= 0 /\ last.out.entry.runTimeTicks >= 0)
    /\ \A r \in table : r.level >= 0 /\ r.run_time_ticks >= 0

\* C18: the initials normalize_entry returns are non-empty, at most 3
\* characters long and equal to their own uppercase form; they are "???" when
\* the input initials are missing, empty or only whitespace.
C18_InitialsShape ==
    LastIsNormalize =>
        LET initials == last.entry.initials
            given == last.data["initials"]
        IN  /\ last.raised = ""
            /\ initials # <<>>
            /\ Len(initials) <= 3
            /\ Upper(initials) = initials
            /\ (given.t = "absent" \/ (given.t = "str" /\ Strip(given.s) = <<>>)) =>
                  initials = <<"?", "?", "?">>

C18_SharpSInitials ==
    /\ LastIsNormalize
    /\ last.data["initials"] = JStr(<<SharpS, SharpS, SharpS>>)
    /\ last.entry.initials = <<"S", "S", "S">>

\* the value normalize_entry reads for a field with a legacy alternate
Given(data, key, legacy) == Get(data, key, Get(data, legacy, Absent))
HasNoInteger(v) ==
    \/ v.t \in {"absent", "null", "bool", "float", "list", "dict"}
    \/ v.t = "str" /\ \A i \in 1..Len(v.s) : ~IsDigit(v.s[i])

\* C19: normalize_entry never raises and returns an entry with all six
\* fields, whatever JSON value each field of the mapping holds; a level or
\* runTimeTicks that is missing or holds no integer becomes 0.
C19_NormalizeIsTotal ==
    LastIsNormalize =>
        /\ last.raised = ""
        /\ DOMAIN last.entry =
              {"id", "initials", "level", "runTimeTicks", "victory", "timestampUtc"}
        /\ last.entry.id # <<>>
        /\ last.entry.level \in Int /\ last.entry.runTimeTicks \in Int
        /\ last.entry.victory \in BOOLEAN
        /\ last.entry.timestampUtc # <<>>
        /\ HasNoInteger(Given(last.data, "level", "score")) => last.entry.level = 0
        /\ HasNoInteger(Given(last.data, "runTimeTicks", "run_time_ticks")) =>
              last.entry.runTimeTicks = 0

C19_ObjectAsLevel ==
    /\ LastIsNormalize
    /\ last.data["level"] = JDict(1)
    /\ last.raised = ""
    /\ last.entry.level = 0

TrueWords == {<<"t", "r", "u", "e">>, <<"y", "e", "s">>, <<"y">>, <<"1">>}

\* C20: the victory flag is true exactly when the input is boolean true, a
\* non-zero number, or a string that trimmed and without regard to case is
\* "true", "yes", "y" or "1"; it is false otherwise, also when missing.
C20_VictoryCoercion ==
    LastIsNormalize =>
        LET v == last.data["victory"] IN
        last.entry.victory <=>
            \/ v.t = "bool" /\ v.n = 1
            \/ v.t \in {"int", "float"} /\ v.n # 0
            \/ v.t = "str" /\ \E w \in TrueWords : Upper(Strip(v.s)) = Upper(w)

C20_PaddedYes ==
    /\ LastIsNormalize
    /\ last.data["victory"] = JStr(<<" ", "Y", "e", "s", " ">>)
    /\ last.entry.victory

(***************************************************************************)
(* The limiter under the server's threads: every connection is handled in  *)
(* its own thread, and the main loop runs cleanup_old_entries between      *)
(* connections.  Nothing locks RATE_LIMITER.requests, so the statements of  *)
(* is_allowed and of cleanup_old_entries interleave.                       *)
(***************************************************************************)
MaxHandlerThreads == ServerMaxRequests + 1
ThreadKey == "c1"

Handler(t) == threads.run[t]
SetHandler(t, rec) == [threads EXCEPT !.run[t] = rec]
Running(op, pc) ==
    {t \in 1..Len(threads.run) : threads.run[t].op = op /\ threads.run[t].pc = pc}

\* ThreadingMixIn.process_request: a thread that will call is_allowed
Connect ==
    /\ Len(threads.run) < MaxHandlerThreads
    /\ threads' = [threads EXCEPT !.run =
                      Append(@, [op |-> "is_allowed", pc |-> "call", at |-> 0,
                                 kept |-> <<>>, result |-> FALSE])]
    /\ UNCHANGED <<cfg, table, requests, now, fresh, last, latest, admitted, conn>>

\* lines 98-105, right-hand side: the clock, the cutoff, the filtered list;
\* reading the defaultdict creates the key
LimiterFilter ==
    \E t \in Running("is_allowed", "call") :
        LET seen == Timestamps(requests, ThreadKey) IN
        /\ requests' = SetTimestamps(requests, ThreadKey, seen)
        /\ threads' = SetHandler(t, [Handler(t) EXCEPT
                          !.pc = "filtered", !.at = now,
                          !.kept = NewerThan(seen, now - RATE_LIMITER.window_seconds)])
        /\ UNCHANGED <<cfg, table, now, fresh, last, latest, admitted, conn>>

\* line 102: self.requests[client_ip] = the filtered list
LimiterStore ==
    \E t \in Running("is_allowed", "filtered") :
        /\ requests' = SetTimestamps(requests, ThreadKey, Handler(t).kept)
        /\ threads' = SetHandler(t, [Handler(t) EXCEPT !.pc = "stored"])
        /\ UNCHANGED <<cfg, table, now, fresh, last, latest, admitted, conn>>

\* lines 108-109: the limit test, return False
LimiterCheck ==
    \E t \in Running("is_allowed", "stored") :
        LET seen == Timestamps(requests, ThreadKey) IN
        /\ requests' = SetTimestamps(requests, ThreadKey, seen)
        /\ threads' = SetHandler(t, [Handler(t) EXCEPT
                          !.pc = IF Len(seen) >= RATE_LIMITER.max_requests
                                 THEN "done" ELSE "checked"])
        /\ UNCHANGED <<cfg, table, now, fresh, last, latest, admitted, conn>>

\* lines 112-113: append(now), return True
LimiterAppend ==
    \E t \in Running("is_allowed", "checked") :
        /\ requests' = SetTimestamps(requests, ThreadKey,
                          Append(Timestamps(requests, ThreadKey), Handler(t).at))
        /\ threads' = SetHandler(t, [Handler(t) EXCEPT !.pc = "done", !.result = TRUE])
        /\ admitted' = SetTimestamps(admitted, ThreadKey,
                          Append(Timestamps(admitted, ThreadKey), Handler(t).at))
        /\ UNCHANGED <<cfg, table, now, fresh, last, latest, conn>>

\* cleanup_old_entries, lines 117-120: the clock and list(self.requests.keys())
SweepBegin ==
    /\ threads.sweep.pc = "idle"
    /\ DOMAIN requests # {}
    /\ threads' = [threads EXCEPT !.sweep =
                      [pc |-> "filter", keys |-> SetToSeq(DOMAIN requests),
                       kept |-> <<>>, at |-> now]]
    /\ UNCHANGED <<cfg, table, requests, now, fresh, last, latest, admitted, conn>>

\* lines 121-124, right-hand side
SweepFilter ==
    /\ threads.sweep.pc = "filter"
    /\ LET ip == Head(threads.sweep.keys)
           seen == Timestamps(requests, ip)
       IN  /\ requests' = SetTimestamps(requests, ip, seen)
           /\ threads' = [threads EXCEPT
                             !.sweep.pc = "store",
                             !.sweep.kept =
                                 NewerThan(seen, threads.sweep.at
                                                 - RATE_LIMITER.window_seconds * 2)]
    /\ UNCHANGED <<cfg, table, now, fresh, last, latest, admitted, conn>>

\* line 121: self.requests[ip] = the filtered list
SweepStore ==
    /\ threads.sweep.pc = "store"
    /\ requests' = SetTimestamps(requests, Head(threads.sweep.keys), threads.sweep.kept)
    /\ threads' = [threads EXCEPT !.sweep.pc = "check"]
    /\ UNCHANGED <<cfg, table, now, fresh, last, latest, admitted, conn>>

\* the loop goes on to the next key, or cleanup_old_entries returns
SweepNext ==
    IF Len(threads.sweep.keys) > 1
    THEN [threads EXCEPT !.sweep.pc = "filter", !.sweep.keys = Tail(@)]
    ELSE [threads EXCEPT !.sweep = NoThreads.sweep]

\* line 125: if not self.requests[ip]
SweepCheck ==
    /\ threads.sweep.pc = "check"
    /\ LET ip == Head(threads.sweep.keys)
           seen == Timestamps(requests, ip)
       IN  /\ requests' = SetTimestamps(requests, ip, seen)
           /\ threads' = IF seen = <<>>
                         THEN [threads EXCEPT !.sweep.pc = "del"]
                         ELSE SweepNext
    /\ UNCHANGED <<cfg, table, now, fresh, last, latest, admitted, conn>>

\* line 126: del self.requests[ip]
SweepDel ==
    /\ threads.sweep.pc = "del"
    /\ requests' = [k \in DOMAIN requests \ {Head(threads.sweep.keys)} |-> requests[k]]
    /\ threads' = SweepNext
    /\ UNCHANGED <<cfg, table, now, fresh, last, latest, admitted, conn>>

NextLimiterThreads ==
    \/ Connect
    \/ LimiterFilter
    \/ LimiterStore
    \/ LimiterCheck
    \/ LimiterAppend
    \/ SweepBegin
    \/ SweepFilter
    \/ SweepStore
    \/ SweepCheck
    \/ SweepDel
    \/ Tick

SpecLimiterThreads == InitRepo /\ [][NextLimiterThreads]_vars

Quiescent ==
    /\ \A t \in 1..Len(threads.run) : threads.run[t].pc = "done"
    /\ threads.sweep.pc = "idle"

\* C11: whatever the interleaving of the is_allowed calls of the handler
\* threads and of the cleanup sweeps, at most max_requests calls of one key
\* are admitted within any one window, and once all calls have returned the
\* timestamp of every call admitted within the current window is in the
\* key's list.
C11_LimiterNotCorrupted ==
    \A ip \in DOMAIN admitted :
        /\ \A t \in 0..MaxTime :
              Cardinality({i \in 1..Len(admitted[ip]) :
                              /\ admitted[ip][i] > t - RATE_LIMITER.window_seconds
                              /\ admitted[ip][i] <= t})
                  <= RATE_LIMITER.max_requests
        /\ Quiescent =>
              \A t \in 0..MaxTime :
                  t > now - RATE_LIMITER.window_seconds =>
                      CountOf(Timestamps(requests, ip), t) >= CountOf(admitted[ip], t)

(***************************************************************************)
(* upsert_entry under the server's threads.  All handler threads share the  *)
(* one connection opened with check_same_thread=False, and nothing locks    *)
(* it.  Each sqlite3 call is atomic, but execute() asks whether a          *)
(* transaction is open before it issues BEGIN, and the `with` block asks    *)
(* again before COMMIT or ROLLBACK; other threads run in between.          *)
(***************************************************************************)
MaxUpsertThreads == 2

\* the entries the concurrent POSTs submit
ThreadEntries ==
    {e \in RepoEntries :
        /\ e.initials = <<"A", "B">> /\ e.runTimeTicks = 5 /\ e.victory
        /\ (e.level = 7 <=> e.timestampUtc = IsoFormat(1))}

\* a handler thread about to call REPOSITORY.upsert_entry(entry)
Submit ==
    \E entry \in ThreadEntries :
        /\ Len(threads.run) < MaxUpsertThreads
        /\ threads' = [threads EXCEPT !.run =
                          Append(@, [op |-> "upsert_entry", pc |-> "execute",
                                     entry |-> entry, begin |-> FALSE,
                                     raised |-> ""])]
        /\ UNCHANGED <<cfg, table, requests, now, fresh, last, latest, admitted, conn>>

\* execute(): is the connection in autocommit state, so that BEGIN is due
ExecuteAsk ==
    \E t \in Running("upsert_entry", "execute") :
        /\ threads' = SetHandler(t, [Handler(t) EXCEPT
                          !.pc = "begin", !.begin = ~conn.in_transaction])
        /\ UNCHANGED <<cfg, table, requests, now, fresh, last, latest, admitted, conn>>

\* execute(): BEGIN, which fails inside a transaction another thread opened
ExecuteBegin ==
    \E t \in Running("upsert_entry", "begin") :
        /\ IF ~Handler(t).begin
           THEN /\ threads' = SetHandler(t, [Handler(t) EXCEPT !.pc = "statement"])
                /\ conn' = conn
           ELSE IF conn.in_transaction
           THEN /\ threads' = SetHandler(t, [Handler(t) EXCEPT
                                  !.pc = "rollback", !.raised = "sqlite3.Error"])
                /\ conn' = conn
           ELSE /\ threads' = SetHandler(t, [Handler(t) EXCEPT !.pc = "statement"])
                /\ conn' = [in_transaction |-> TRUE, undo |-> table]
        /\ UNCHANGED <<cfg, table, requests, now, fresh, last, latest, admitted>>

\* execute(): the INSERT ... ON CONFLICT statement, one atomic step
ExecuteStatement ==
    \E t \in Running("upsert_entry", "statement"), io \in IoOutcomes :
        LET up == UpsertEntry(table, Handler(t).entry, io) IN
        /\ table' = up.table
        /\ threads' = SetHandler(t, [Handler(t) EXCEPT
                          !.pc = IF up.raised = "" THEN "commit" ELSE "rollback",
                          !.raised = up.raised])
        /\ UNCHANGED <<cfg, requests, now, fresh, last, latest, admitted, conn>>

\* Connection.__exit__ without an exception: is a transaction open
CommitAsk ==
    \E t \in Running("upsert_entry", "commit") :
        /\ threads' = SetHandler(t, [Handler(t) EXCEPT
                          !.pc = IF conn.in_transaction THEN "committing" ELSE "done"])
        /\ UNCHANGED <<cfg, table, requests, now, fresh, last, latest, admitted, conn>>

\* COMMIT; when another thread has ended the transaction it fails, and
\* __exit__ goes on to roll back
Commit ==
    \E t \in Running("upsert_entry", "committing") :
        /\ IF conn.in_transaction
           THEN /\ conn' = Autocommit
                /\ threads' = SetHandler(t, [Handler(t) EXCEPT !.pc = "done"])
           ELSE /\ conn' = conn
                /\ threads' = SetHandler(t, [Handler(t) EXCEPT
                                  !.pc = "rollback", !.raised = "sqlite3.Error"])
        /\ UNCHANGED <<cfg, table, requests, now, fresh, last, latest, admitted>>

\* Connection.__exit__ with an exception: is a transaction open
RollbackAsk ==
    \E t \in Running("upsert_entry", "rollback") :
        /\ threads' = SetHandler(t, [Handler(t) EXCEPT
                          !.pc = IF conn.in_transaction THEN "rolling" ELSE "done"])
        /\ UNCHANGED <<cfg, table, requests, now, fresh, last, latest, admitted, conn>>

\* ROLLBACK: everything written since BEGIN is undone, by whichever thread
Rollback ==
    \E t \in Running("upsert_entry", "rolling") :
        /\ table' = IF conn.in_transaction THEN conn.undo ELSE table
        /\ conn' = Autocommit
        /\ threads' = SetHandler(t, [Handler(t) EXCEPT !.pc = "done"])
        /\ UNCHANGED <<cfg, requests, now, fresh, last, latest, admitted>>

NextUpsertThreads ==
    \/ Submit
    \/ ExecuteAsk
    \/ ExecuteBegin
    \/ ExecuteStatement
    \/ CommitAsk
    \/ Commit
    \/ RollbackAsk
    \/ Rollback

SpecUpsertThreads == InitRepo /\ [][NextUpsertThreads]_vars

Returned(t) == threads.run[t].pc = "done" /\ threads.run[t].raised = ""

\* C12: whatever the interleaving of two concurrent upserts, once both calls
\* have ended every upsert that returned has a row under its id, and that
\* row equals in all fields the entry one of the calls submitted under that
\* id: one of the two for a shared id, both entries for different ids.
C12_ConcurrentUpsertsAtomic ==
    (Len(threads.run) = MaxUpsertThreads /\ Quiescent) =>
        \A t \in 1..Len(threads.run) :
            Returned(t) =>
                \E r \in table :
                    /\ r.id = threads.run[t].entry.id
                    /\ \E u \in 1..Len(threads.run) : r = RowOf(threads.run[u].entry)

(***************************************************************************)
(* The repository's read side: leaderboard and get_global_stats called     *)
(* directly on a store filled by upsert_entry                              *)
(***************************************************************************)
MaxRows == 4

LeaderboardEntry(id, initials, level, ticks, t) ==
    [id |-> Chars(id), initials |-> initials, level |-> level, runTimeTicks |-> ticks,
     victory |-> level >= 5, timestampUtc |-> IsoFormat(t)]

\* three runs of two players, a fourth with the level and run time of the
\* second, a run of level 0, a run without a run time
LeaderboardEntries ==
    {LeaderboardEntry("a", <<"A", "B">>, 5, 100, 1),
     LeaderboardEntry("b", <<"X", "Y", "Z">>, 5, 50, 1),
     LeaderboardEntry("c", <<"A", "B">>, 3, 10, 0),
     LeaderboardEntry("d", <<"A", "B">>, 5, 50, 0),
     LeaderboardEntry("e", <<"X", "Y", "Z">>, 0, 7, 1),
     LeaderboardEntry("f", <<"Q">>, 7, 0, 0)}

Limits == {0 - 1, 0, 1, 2, 3, 100, 101}

\* since: None, "", clock readings, a separator that is not T, a word
Sinces ==
    {None, Some(<<>>), Some(IsoFormat(1)), Some(<<"x", "0">>),
     Some(<<"w", "e", "e", "k">>)}

StoreEntry ==
    \E entry \in LeaderboardEntries :
        /\ Cardinality(InsertOrUpdate(table, RowOf(entry))) <= MaxRows
        /\ UpsertOf(entry, "ok")

\* REPOSITORY.leaderboard(limit, since)
LeaderboardCallOf(limits, sinces) ==
    \E limit \in limits, since \in sinces :
        \E result \in Leaderboard(table, limit, since) :
            /\ last' = [method |-> "leaderboard", limit |-> limit, since |-> since,
                        result |-> result]
            /\ UNCHANGED <<cfg, table, requests, now, fresh, latest, admitted, threads, conn>>

LeaderboardCall == LeaderboardCallOf(Limits, Sinces)

\* REPOSITORY.get_global_stats(since)
GetGlobalStatsCall ==
    \E since \in Sinces :
        \E result \in GetGlobalStats(table, since) :
            /\ last' = [method |-> "get_global_stats", since |-> since, result |-> result]
            /\ UNCHANGED <<cfg, table, requests, now, fresh, latest, admitted, threads, conn>>

\* GET requests with limit and since parameters
QueryRequests ==
    {GetRequest("/scoreboard", Query(l, None), "c1") :
        l \in {None, Some(<<"0">>), Some(<<"-", "5">>), Some(<<"1">>), Some(<<"2">>),
               Some(<<"1", "0", "0">>), Some(<<"1", "0", "0", "0">>),
               Some(<<"a", "b", "c">>)}}
        \cup {GetRequest("/leaderboard", Query(Some(<<"0">>), s), "c1") :
                 s \in {Some(IsoFormat(1)), Some(<<"W", "e", "e", "k">>),
                        Some(<<"T", "O", "D", "A", "Y">>), Some(<<"m", "o", "n", "t", "h">>)}}
        \cup {GetRequest("/", Query(Some(<<"1", "0", "0", "0">>), None), "c1")}

QueryRequestSeq == SetToSeq(QueryRequests)

NextLeaderboard == StoreEntry \/ LeaderboardCall \/ GetGlobalStatsCall

SpecLeaderboard == InitRepo /\ [][NextLeaderboard]_vars

(***************************************************************************)
(* The limit of a query, given to leaderboard() and in GET ?limit=         *)
(***************************************************************************)
QueryGET == DoGETOf(QueryRequestSeq)

LimitCall == LeaderboardCallOf({0 - 1, 0, 1, 100, 101}, {None, Some(IsoFormat(1))})

NextQuery == StoreEntry \/ LimitCall \/ QueryGET

SpecQuery == InitRepo /\ [][NextQuery]_vars

LastIsLeaderboard == last.method = "leaderboard"
LastIsStats == last.method = "get_global_stats"

\* the last operation was a GET that returned the JSON leaderboard
LastIsQuery ==
    /\ last.method = "GET"
    /\ last.out.payload.type = "json"
LastQuery == QueryRequestSeq[last.req]
LastQueryLimit ==
    IF LastQuery.query.limit.set THEN ParseInt(LastQuery.query.limit.v)
    ELSE [ok |-> FALSE, n |-> 0]

\* the (level, runTimeTicks) pairs of a list of entries
Pairs(entries) == [i \in DOMAIN entries |-> <<entries[i].level, entries[i].runTimeTicks>>]
NoRepeat(entries) == \A i, j \in DOMAIN entries : i # j => entries[i] # entries[j]

\* the entries of the store the since filter of the last call keeps
Kept ==
    LET s == last.since
    IN  IF s.set /\ FromIsoFormat(s.v)
        THEN {EntryOf(r) : r \in {x \in table : ~TextLess(x.timestamp_utc, s.v)}}
        ELSE {EntryOf(r) : r \in table}

EffectiveLimit == IF last.limit < 1 THEN 1 ELSE IF last.limit > 100 THEN 100 ELSE last.limit

ProgressBefore(a, b) ==
    a.level > b.level \/ (a.level = b.level /\ a.runTimeTicks < b.runTimeTicks)

\* C21: topByProgress (topLevels) is the first min(limit, n) of the n entries
\* matching the filter, sorted by level descending and, at equal levels, by
\* runTimeTicks ascending: it has that many distinct matching entries, none
\* sorts before an entry listed earlier, and no entry left out sorts before a
\* listed one; the entries (5,100), (5,50), (3,10) with limit 3 give
\* [(5,50), (5,100), (3,10)].
C21_TopByProgressSorted ==
    LastIsLeaderboard =>
        LET top == last.result.topLevels
        IN  /\ Len(top) = Min(EffectiveLimit, Cardinality(Kept))
            /\ SeqEntries(top) \subseteq Kept
            /\ NoRepeat(top)
            /\ \A i, j \in DOMAIN top : i < j => ~ProgressBefore(top[j], top[i])
            /\ \A e \in Kept \ SeqEntries(top) :
                  \A i \in DOMAIN top : ~ProgressBefore(e, top[i])
            /\ ({<<e.level, e.runTimeTicks>> : e \in Kept} = {<<5, 100>>, <<5, 50>>, <<3, 10>>}
                  /\ Cardinality(Kept) = 3 /\ last.limit = 3
                  => Pairs(top) = <<<<5, 50>>, <<5, 100>>, <<3, 10>>>>)

C21_ThreeRunsRanked ==
    /\ LastIsLeaderboard
    /\ last.limit = 3
    /\ ~last.since.set
    /\ Cardinality(table) = 3
    /\ Pairs(last.result.topLevels) = <<<<5, 50>>, <<5, 100>>, <<3, 10>>>>

SpeedBefore(a, b) ==
    a.runTimeTicks < b.runTimeTicks \/ (a.runTimeTicks = b.runTimeTicks /\ a.level > b.level)

\* C22: topBySpeed (fastestRuns) holds only entries with runTimeTicks > 0 and
\* level > 0, is sorted by runTimeTicks ascending and, at equal run times, by
\* level descending, and has at most limit entries.
C22_TopBySpeedFilteredSorted ==
    LastIsLeaderboard =>
        LET fast == last.result.fastestRuns
        IN  /\ \A i \in DOMAIN fast : fast[i].runTimeTicks > 0 /\ fast[i].level > 0
            /\ \A i, j \in DOMAIN fast : i < j => ~SpeedBefore(fast[j], fast[i])
            /\ Len(fast) <= EffectiveLimit
            /\ SeqEntries(fast) \subseteq Kept

C22_UntimedAndLevelZeroLeftOut ==
    /\ LastIsLeaderboard
    /\ \E r \in table : r.level = 0 /\ r.run_time_ticks > 0
    /\ \E r \in table : r.level > 0 /\ r.run_time_ticks = 0
    /\ ~last.since.set
    /\ Len(last.result.fastestRuns) = 2
    /\ last.limit = 3

\* the store holds exactly the runs (5,100), (5,50), (3,10) and leaderboard
\* was called with limit 3 and no since
ThreeRunsLimitThree ==
    /\ LastIsLeaderboard
    /\ last.limit = 3
    /\ ~last.since.set
    /\ Cardinality(table) = 3
    /\ {<<r.level, r.run_time_ticks>> : r \in table} = {<<5, 100>>, <<5, 50>>, <<3, 10>>}

\* C23 as stated: with exactly the runs (5,100), (5,50), (3,10) stored,
\* leaderboard with limit 3 returns topBySpeed as [(5,50), (5,100), (3,10)].
C23_SpeedOrderAsStated ==
    ThreeRunsLimitThree =>
        Pairs(last.result.fastestRuns) = <<<<5, 50>>, <<5, 100>>, <<3, 10>>>>

\* C23 amended: with exactly the runs (5,100), (5,50), (3,10) stored,
\* leaderboard with limit 3 returns topBySpeed by ascending run time, as
\* [(3,10), (5,50), (5,100)].
C23_SpeedOrderByRunTime ==
    ThreeRunsLimitThree =>
        Pairs(last.result.fastestRuns) = <<<<3, 10>>, <<5, 50>>, <<5, 100>>>>

C23_ThreeRunsBySpeed ==
    /\ ThreeRunsLimitThree
    /\ Len(last.result.fastestRuns) = 3
    /\ last.result.fastestRuns[1].level = 3

\* a syntactically valid ISO-8601 timestamp, written as IsoFormat writes it:
\* the separator is T
IsIso8601(ts) == FromIsoFormat(ts) /\ ts[1] = "T"

\* C25: a leaderboard or stats query whose since value is not a syntactically
\* valid ISO-8601 timestamp returns exactly the result of the same query with
\* no since filter, and raises no error.
C25_InvalidSinceIsNoFilter ==
    /\ (LastIsLeaderboard /\ last.since.set /\ ~IsIso8601(last.since.v)) =>
          last.result \in Leaderboard(table, last.limit, None)
    /\ (LastIsStats /\ last.since.set /\ ~IsIso8601(last.since.v)) =>
          last.result \in GetGlobalStats(table, None)

\* the run times above 0 among the entries the filter keeps
TimedKept == {n \in {e.runTimeTicks : e \in Kept} : n > 0}

\* the stats of the last call
LastStats == IF LastIsStats THEN last.result ELSE last.result.stats

\* C26 as stated: fastestTimeTicks is the minimum runTimeTicks over the
\* matching entries with runTimeTicks > 0, and is absent (not a number) when
\* no matching entry has runTimeTicks > 0.
C26_FastestAbsentWhenNone ==
    (LastIsStats \/ LastIsLeaderboard) =>
        IF TimedKept = {} THEN LastStats.fastestTimeTicks \notin Int
        ELSE /\ LastStats.fastestTimeTicks \in TimedKept
             /\ \A n \in TimedKept : LastStats.fastestTimeTicks <= n

\* C26 amended: fastestTimeTicks is the minimum runTimeTicks over the
\* matching entries with runTimeTicks > 0, and is 0 when no matching entry
\* has runTimeTicks > 0.
C26_FastestZeroWhenNone ==
    (LastIsStats \/ LastIsLeaderboard) =>
        IF TimedKept = {} THEN LastStats.fastestTimeTicks = 0
        ELSE /\ LastStats.fastestTimeTicks \in TimedKept
             /\ \A n \in TimedKept : LastStats.fastestTimeTicks <= n

C26_OnlyUntimedRuns ==
    /\ LastIsStats
    /\ Kept # {}
    /\ TimedKept = {}
    /\ last.result.totalRuns = 1
    /\ last.result.fastestTimeTicks = 0

MaxReaders == 1

SnapshotEntries ==
    {e \in LeaderboardEntries : e.id \in {Chars("a"), Chars("c"), Chars("f")}}

\* upsert_entry of another handler thread, from BEGIN to COMMIT
ConcurrentUpsert == \E entry \in SnapshotEntries : UpsertOf(entry, "ok")

Reader(t) == threads.run[t]

\* a handler thread calls REPOSITORY.leaderboard(limit, since): lines 158-164
ReadCall ==
    \E limit \in {1, 3}, since \in {None, Some(IsoFormat(1))} :
        /\ Len(threads.run) < MaxReaders
        /\ threads' = [threads EXCEPT !.run =
                          Append(@, [op |-> "leaderboard", pc |-> "top",
                                     limit |-> ClampLimit(limit),
                                     since |-> ValidateTimestamp(since),
                                     top |-> <<>>, fast |-> <<>>, count |-> 0,
                                     stats_row |-> StatsRow({}),
                                     top_player |-> <<>>])]
        /\ UNCHANGED <<cfg, table, requests, now, fresh, last, latest, admitted, conn>>

\* lines 166-182: the top levels query
ReadTop ==
    \E t \in Running("leaderboard", "top") :
        \E top \in TopLevels(table, Reader(t).since, Reader(t).limit) :
            /\ threads' = SetHandler(t, [Reader(t) EXCEPT !.pc = "fast", !.top = top])
            /\ UNCHANGED <<cfg, table, requests, now, fresh, last, latest, admitted, conn>>

\* lines 184-200: the fastest runs query
ReadFast ==
    \E t \in Running("leaderboard", "fast") :
        \E fast \in FastestRuns(table, Reader(t).since, Reader(t).limit) :
            /\ threads' = SetHandler(t, [Reader(t) EXCEPT !.pc = "count", !.fast = fast])
            /\ UNCHANGED <<cfg, table, requests, now, fresh, last, latest, admitted, conn>>

\* lines 202-208: the count query
ReadCount ==
    \E t \in Running("leaderboard", "count") :
        /\ threads' = SetHandler(t, [Reader(t) EXCEPT
                          !.pc = "stats", !.count = CountRows(table, Reader(t).since)])
        /\ UNCHANGED <<cfg, table, requests, now, fresh, last, latest, admitted, conn>>

\* the result leaderboard returns to the thread
ReadResult(r, stats) ==
    [method |-> "leaderboard", limit |-> r.limit, since |-> r.since,
     result |-> [count |-> r.count, topLevels |-> r.top, fastestRuns |-> r.fast,
                 stats |-> stats]]

\* get_global_stats, lines 233-268: the aggregates; no run ends the call
ReadStatsRow ==
    \E t \in Running("leaderboard", "stats") :
        LET row == StatsRow(Matching(table, ValidateTimestamp(Reader(t).since)))
        IN  IF row.total_runs = 0
            THEN /\ threads' = SetHandler(t, [Reader(t) EXCEPT !.pc = "done"])
                 /\ last' = ReadResult(Reader(t), EmptyStats)
                 /\ UNCHANGED <<cfg, table, requests, now, fresh, latest, admitted, conn>>
            ELSE /\ threads' = SetHandler(t, [Reader(t) EXCEPT
                                   !.pc = "top_player", !.stats_row = row])
                 /\ UNCHANGED <<cfg, table, requests, now, fresh, last, latest,
                                admitted, conn>>

\* lines 270-288: the top player query
ReadTopPlayer ==
    \E t \in Running("leaderboard", "top_player") :
        \E tp \in TopPlayers(Matching(table, ValidateTimestamp(Reader(t).since))) :
            /\ threads' = SetHandler(t, [Reader(t) EXCEPT
                              !.pc = "fastest_player", !.top_player = tp])
            /\ UNCHANGED <<cfg, table, requests, now, fresh, last, latest, admitted, conn>>

\* lines 290-321: the fastest player query, and the return
ReadFastestPlayer ==
    \E t \in Running("leaderboard", "fastest_player") :
        \E fp \in FastestPlayers(Matching(table, ValidateTimestamp(Reader(t).since))) :
            /\ threads' = SetHandler(t, [Reader(t) EXCEPT !.pc = "done"])
            /\ last' = ReadResult(Reader(t),
                                  StatsOf(Reader(t).stats_row, Reader(t).top_player, fp))
            /\ UNCHANGED <<cfg, table, requests, now, fresh, latest, admitted, conn>>

NextSnapshot ==
    \/ ConcurrentUpsert
    \/ ReadCall \/ ReadTop \/ ReadFast \/ ReadCount
    \/ ReadStatsRow \/ ReadTopPlayer \/ ReadFastestPlayer

SpecSnapshot == InitRepo /\ [][NextSnapshot]_vars

\* C27: all parts of one leaderboard result come from one snapshot, also
\* with upserts running beside the read: count equals stats.totalRuns, the
\* entries of topByProgress and topBySpeed are no more than count, and
\* stats.highestLevel is the level of the first topByProgress entry when
\* count > 0.
C27_ResultIsOneSnapshot ==
    LastIsLeaderboard =>
        LET res == last.result
        IN  /\ res.count = res.stats.totalRuns
            /\ Len(res.topLevels) <= res.count
            /\ Len(res.fastestRuns) <= res.count
            /\ res.count > 0 =>
                  /\ res.topLevels # <<>>
                  /\ res.stats.highestLevel = res.topLevels[1].level

(***************************************************************************)
(* Reads and writes through the handlers                                   *)
(***************************************************************************)
LastIsGet == last.method = "GET"
LastGet == GetRequestSeq[last.req]

\* C28: read operations never mutate the store: a GET of /, /scoreboard,
\* /leaderboard, /healthz or an unknown path, with the calls of leaderboard
\* and get_global_stats it makes, leaves the set of stored rows and all
\* their fields as they were.
C28_ReadsLeaveStore == [][last'.method = "GET" => table' = table]_vars

C28_ReadOfStoredRun ==
    /\ LastIsGet
    /\ last.out.status = 200
    /\ last.out.payload.type = "json"
    /\ last.out.payload.body.count = 1
    /\ last.out.payload.body.fastestRuns = <<>>
    /\ Cardinality(table) = 1

\* C30: a storage failure during a request is answered 500 on every path:
\* a POST whose upsert fails and a GET of /, /scoreboard or /leaderboard
\* whose leaderboard query fails both get a 500, and the failed statement
\* is not run again.
C30_StorageFailureIs500 ==
    /\ (/\ LastIsPost /\ last.io # "ok" /\ Has(last.out.steps, "persist")
        /\ FitsSqliteInteger(last.out.entry.level)
        /\ FitsSqliteInteger(last.out.entry.runTimeTicks)) =>
          /\ last.out.status = 500
          /\ last.out.upserts = 1
    /\ (LastIsGet /\ last.io # "ok" /\ Has(last.out.steps, "query")) =>
          /\ last.out.status = 500
          /\ Cardinality({i \in DOMAIN last.out.steps : last.out.steps[i] = "query"}) = 1

(***************************************************************************)
(* A run posted as base64 and read back with GET /scoreboard?limit=1, two  *)
(* clients posting                                                         *)
(***************************************************************************)
WonRun ==
    Payload([id |-> JStr(Chars("a")), initials |-> JStr(<<"a", "b">>),
             level |-> JStr(<<"7">>), runTimeTicks |-> JInt(5),
             victory |-> JStr(<<"y", "e", "s">>), timestampUtc |-> JStr(IsoFormat(0))])

\* runs of other ids: the same level and run time, a faster run of the
\* same level, a run of a lower level
OtherRuns ==
    {Payload([id |-> JStr(Chars("b")), level |-> JInt(7), runTimeTicks |-> JInt(5),
              timestampUtc |-> JStr(IsoFormat(0))]),
     Payload([id |-> JStr(Chars("c")), level |-> JInt(7), runTimeTicks |-> JInt(3),
              timestampUtc |-> JStr(IsoFormat(0))]),
     Payload([id |-> JStr(Chars("d")), level |-> JInt(3), runTimeTicks |-> JInt(1),
              timestampUtc |-> JStr(IsoFormat(0))])}

WriteClients == {"c1", "c2"}

WriteRequests ==
    {Request("/scoreboard", "", c, None, GoodLength,
             ObjectBody(NoField, B64Field(B64Encode(Utf8Encode(DictText(p)))))) :
        p \in {WonRun} \cup OtherRuns, c \in WriteClients}

ReadRequests ==
    {GetRequest("/scoreboard", Query(Some(<<"1">>), None), c) : c \in WriteClients}

WriteRequestSeq == SetToSeq(WriteRequests)
ReadRequestSeq == SetToSeq(ReadRequests)

WritePOST == DoPOSTOf(WriteRequestSeq)
ReadGET == DoGETOf(ReadRequestSeq)

NextReadWrite == WritePOST \/ ReadGET \/ Tick

SpecReadWrite == InitRepo /\ [][NextReadWrite]_vars

\* the run of WonRun as stored: level 7, victory true
WonEntry ==
    [id |-> Chars("a"), initials |-> <<"A", "B">>, level |-> 7, runTimeTicks |-> 5,
     victory |-> TRUE, timestampUtc |-> IsoFormat(0)]

\* the last request was the POST of WonRun, answered 202
WonRunAccepted ==
    /\ LastIsPost
    /\ WriteRequestSeq[last.req].body.line_b64.enc.bytes.text = DictText(WonRun)
    /\ last.out.status = 202

\* WonRun was accepted before, and the last request is a GET
\* /scoreboard?limit=1 answered with the leaderboard
ReadAfterWonRun ==
    /\ LastIsGet
    /\ Chars("a") \in DOMAIN latest
    /\ last.out.status = 200
    /\ last.out.payload.type = "json"

RefusedUnread(status) ==
    /\ last.out.status = status
    /\ last.out.responses = 1
    /\ ~Has(last.out.steps, "read")
    /\ last.out.upserts = 0
    /\ ~last.out.stored
    /\ last.out.dispatches = 0

\* C31: for an authorized POST /scoreboard, a missing or non-integer
\* Content-Length is answered 411 and one that is not positive or is greater
\* than 4096 is answered 413, in both cases without reading the body,
\* persisting or relaying; a Content-Length of exactly 4096 passes the guard
\* and the body is read.
C31_SizeGuard ==
    (LastIsPost /\ PassedAuthorization) =>
        LET clen == LastRequest.clen IN
        /\ (~clen.set \/ ~ParseInt(clen.v).ok) => RefusedUnread(411)
        /\ (clen.set /\ ParseInt(clen.v).ok
                /\ (ParseInt(clen.v).n <= 0 \/ ParseInt(clen.v).n > MAX_PAYLOAD_BYTES))
              => RefusedUnread(413)
        /\ (clen.set /\ ParseInt(clen.v).ok /\ ParseInt(clen.v).n = MAX_PAYLOAD_BYTES)
              => (Has(last.out.steps, "read") /\ last.out.status \notin {411, 413})

\* a request declaring exactly 4096 bytes was read, stored and answered 202
C31_Accepted4096 ==
    /\ LastIsPost
    /\ PassedAuthorization
    /\ LastRequest.clen = Some(<<"4", "0", "9", "6">>)
    /\ Has(last.out.steps, "read")
    /\ last.out.status = 202
    /\ RowOf(last.out.entry) \in table


(***************************************************************************)
(* The limiter with cleanup sweeps between its calls, one thread           *)
(***************************************************************************)
\* Two limiters are given the same is_allowed calls at the same clock
\* readings: `requests` is the map of the one that is also swept, `admitted`
\* the map of the one that never is.
SweptIsAllowedCall ==
    \E ip \in LimiterClients :
        LET adm == IsAllowed(Limiter, requests, ip, now)
            ref == IsAllowed(Limiter, admitted, ip, now)
        IN  /\ requests' = adm.requests
            /\ admitted' = ref.requests
            /\ last' = [method |-> "is_allowed", key |-> ip,
                        allowed |-> adm.allowed, unswept |-> ref.allowed,
                        differed |-> Timestamps(requests, ip) # Timestamps(admitted, ip)]
            /\ UNCHANGED <<cfg, table, now, fresh, latest, threads, conn>>

\* RATE_LIMITER.cleanup_old_entries() at the clock reading `now`
CleanupCall ==
    /\ requests' = CleanupOldEntries(Limiter, requests, now)
    /\ last' = [method |-> "cleanup_old_entries", at |-> now, before |-> requests]
    /\ UNCHANGED <<cfg, table, now, fresh, latest, admitted, threads, conn>>

SweepTick ==
    /\ now < SweepHorizon
    /\ now' = now + 1
    /\ UNCHANGED <<cfg, table, requests, fresh, last, latest, admitted, threads, conn>>

NextSweep == SweptIsAllowedCall \/ CleanupCall \/ SweepTick

SpecSweep == InitRepo /\ [][NextSweep]_vars

LastIsCleanup == last.method = "cleanup_old_entries"
SweepCutoff == last.at - 2 * Limiter.window_seconds
HasNewer(seq, cutoff) == \E i \in 1..Len(seq) : seq[i] > cutoff

\* C32: after a cleanup sweep at time now, a key is in the limiter's map
\* exactly when it had a timestamp newer than now - 2 * window_seconds, which
\* it then still has; no key maps to an empty list, and every timestamp
\* newer than the cutoff is still there as often as before.
C32_SweepKeepsRecentOnly ==
    LastIsCleanup =>
        /\ \A ip \in LimiterClients :
              /\ ip \in DOMAIN requests <=>
                    HasNewer(Timestamps(last.before, ip), SweepCutoff)
              /\ ip \in DOMAIN requests => HasNewer(requests[ip], SweepCutoff)
        /\ \A ip \in DOMAIN requests : requests[ip] # <<>>
        /\ \A ip \in DOMAIN last.before : \A ts \in 0..SweepHorizon :
              ts > SweepCutoff =>
                  CountOf(Timestamps(requests, ip), ts) = CountOf(last.before[ip], ts)

\* a sweep deleted one key and shortened the list of another
C32_OneKeyGoneOneShortened ==
    /\ LastIsCleanup
    /\ \E ip \in DOMAIN last.before : ip \notin DOMAIN requests
    /\ \E ip \in DOMAIN requests :
          /\ Len(requests[ip]) < Len(last.before[ip])
          /\ requests[ip] # <<>>


\* C33: whatever cleanup sweeps are run between sequential is_allowed calls,
\* every call returns what it returns on a limiter that is given the same
\* calls and is never swept.
C33_SweepIsTransparent ==
    last.method = "is_allowed" => last.allowed = last.unswept

\* a call for a key whose list a sweep had cut, and a sweep behind a
\* rejected call
C33_CallAfterSweep ==
    /\ last.method = "is_allowed"
    /\ \/ last.differed
       \/ ~last.allowed /\ DOMAIN requests # DOMAIN admitted


(***************************************************************************)
(* Runs posted without an id, and runs posted under a given id, by two     *)
(* clients                                                                 *)
(***************************************************************************)
\* the id key of a payload: missing, or one of the falsy values, or given
PostedIds ==
    {Absent, JNull, JStr(<<>>), JInt(0), JStr(Chars("a"))}

RunWithId(id) ==
    Payload([id |-> id, level |-> JInt(3), runTimeTicks |-> JInt(1),
             timestampUtc |-> JStr(IsoFormat(0))])

IdRequests ==
    {Request("/scoreboard", "", c, None, GoodLength,
             ObjectBody(LineField(DictText(RunWithId(id))), NoField)) :
        id \in PostedIds, c \in WriteClients}

IdRequestSeq == SetToSeq(IdRequests)

IdPOST == DoPOSTOf(IdRequestSeq)

NextFreshIds == IdPOST \/ Tick

SpecFreshIds == InitRepo /\ [][NextFreshIds]_vars

\* the id key of the payload of the POST that becomes the last one
PostedId == IdRequestSeq[last'.req].body.line.text.payload["id"]
\* a step that is a POST answered 202 (an admitted call changes the limiter)
AcceptedPost ==
    /\ last'.method = "POST"
    /\ last'.out.status = 202
    /\ requests' # requests

\* C34: an accepted POST of a payload whose id is missing or falsy stores a
\* row under an id no row had before and leaves every other row as it was,
\* so N such POSTs of one payload leave N rows; an accepted POST of a payload
\* with a given id leaves exactly one row of that id and adds no other.
C34_FreshIdPerSubmission ==
    [][AcceptedPost =>
          LET id == last'.out.entry.id IN
          IF ~Truthy(PostedId)
          THEN /\ id \notin Ids(table)
               /\ table \subseteq table'
               /\ Cardinality(table') = Cardinality(table) + 1
               /\ id \in Ids(table')
          ELSE /\ id = PyStr(PostedId)
               /\ Cardinality({r \in table' : r.id = id}) = 1
               /\ Ids(table') = Ids(table) \cup {id}
               /\ {r \in table' : r.id # id} = {r \in table : r.id # id}]_vars

\* two submissions without an id are stored as two rows that differ in their
\* id only, beside the one row of the run posted under the id "a"
C34_TwoGeneratedIds ==
    /\ LastIsPost
    /\ last.out.status = 202
    /\ Cardinality(table) = 3
    /\ \E r1, r2 \in table :
          /\ r1.id = Uuid(0)
          /\ r2.id = Uuid(1)
          /\ [r1 EXCEPT !.id = r2.id] = r2
    /\ Cardinality({r \in table : r.id = Chars("a")}) = 1


(***************************************************************************)
(* What an accepted POST relays                                            *)
(***************************************************************************)
\* the one argument dispatch was called with
Relayed == last.out.relayed[1]
\* the line the relayed argument decodes to: base64, then UTF-8
RelayedLine == B64Decode(Relayed).bytes.text

\* C35: an accepted POST called dispatch with a string that base64-decodes
\* to the line whose normalized entry was stored; the string is line_b64 as
\* the client sent it whenever line_b64 is there and not empty, with or
\* without a line beside it, and the base64 encoding of line otherwise.
C35_RelayedIsPersisted ==
    (LastIsPost /\ last.out.status = 202) =>
        LET body == LastRequest.body IN
        /\ Len(last.out.relayed) = 1
        /\ B64Decode(Relayed).ok
        /\ B64Decode(Relayed).bytes.utf8
        /\ RelayedLine.kind = "dict"
        /\ last.out.entry = NormalizeEntry(RelayedLine.payload, last.out.entry.id, now)
        /\ RowOf(last.out.entry) \in table
        /\ IF FieldTruthy(body.line_b64)
           THEN Relayed = body.line_b64.enc
           ELSE /\ body.line.t = "str"
                /\ Relayed = B64Encode(Utf8Encode(body.line.text))
                /\ RelayedLine = body.line.text

\* both fields were sent, line_b64 not as b64encode writes it: it was
\* relayed as sent and its run, not the run of line, was stored
C35_BothSentB64Relayed ==
    /\ LastIsPost
    /\ last.out.status = 202
    /\ LastRequest.body.line.t = "str"
    /\ LastRequest.body.line.text = OtherText
    /\ Relayed = B64Spaced(Utf8Encode(GoodText))
    /\ last.out.entry = NormalizeEntry(GoodText.payload, Uuid(0), now)
    /\ last.out.entry # NormalizeEntry(OtherText.payload, Uuid(0), now)


(***************************************************************************)
(* The waits of a dispatch whose five attempts all fail                    *)
(***************************************************************************)
RECURSIVE SumOf(_)
SumOf(seq) == IF seq = <<>> THEN 0 ELSE Head(seq) + SumOf(Tail(seq))

\* a failure the loop goes on from: an HTTPError with a 5xx or 429 status,
\* or a URLError
Retried(reply) ==
    \/ reply.kind = "http" /\ (reply.code >= 500 \/ reply.code = 429)
    \/ reply.kind = "URLError"

\* dispatch made five attempts and each failed in that way
FiveRetriableFailures ==
    /\ LastIsDispatch
    /\ RelayConfigured
    /\ Len(last.run.replies) = DispatchAttempts
    /\ \A i \in 1..DispatchAttempts : Retried(last.run.replies[i])

\* C36: when all five attempts fail retriably, dispatch sleeps after every
\* one of them, the fifth included, for 1, 2, 4, 8 and 10 time units, 25 in
\* all, and then raises RuntimeError; only the last sleep is as long as the
\* cap of 10.
C36_WaitsAfterEveryFailure ==
    FiveRetriableFailures =>
        /\ last.run.result = "RuntimeError"
        /\ last.run.waits = <<1, 2, 4, 8, 10>>
        /\ SumOf(last.run.waits) = 25
        /\ \A n \in 1..Len(last.run.waits) :
              last.run.waits[n] = BackoffCap <=> n = DispatchAttempts


\* 500, 429 and URLError among five failures in a row: five sleeps, then
\* RuntimeError
C36_FiveFailuresFiveWaits ==
    /\ FiveRetriableFailures
    /\ last.run.result = "RuntimeError"
    /\ last.run.message = FailedAfterAttempts
    /\ Len(last.run.waits) = DispatchAttempts
    /\ last.run.waits[DispatchAttempts] = BackoffCap
    /\ {last.run.replies[i].kind : i \in 1..DispatchAttempts} = {"http", "URLError"}

=============================================================================
